---- MODULE Spec2Model ----
(***************************************************************************)
(* Model of the Medcurity client dashboard API (Azure Functions build):    *)
(* the dashboard assembler buildDashboard, the ECD projection engine       *)
(* addEcdAcdFields, the status classifier computeStepStatus and the date   *)
(* helpers they rest on.                                                   *)
(*                                                                         *)
(* Representation.                                                         *)
(*  - A text (a JavaScript string that the code inspects character by      *)
(*    character: metric values, formatted dates) is a sequence of          *)
(*    one-character strings; the empty text is << >>.                      *)
(*  - A Date at local midnight is its day number (days since 1970-01-01    *)
(*    of the civil calendar); null is the record Null.                     *)
(*  - getTime() is kept in whole hours instead of milliseconds (every      *)
(*    local midnight is a whole number of hours from the epoch), so that   *)
(*    the values stay inside the 32-bit integers of TLC.                   *)
(*  - A JavaScript object used as an insertion-ordered map (the metrics    *)
(*    map, the step maps) is a sequence of entries in insertion order.     *)
(***************************************************************************)
EXTENDS Integers, Sequences, FiniteSets, TLC

(***************************************************************************)
(* Texts                                                                   *)
(***************************************************************************)
Digits == {"0", "1", "2", "3", "4", "5", "6", "7", "8", "9"}

\* the whitespace String.prototype.trim removes (the characters the model uses)
WhiteSpace == {" "}

DigitVal(c) ==
  CASE c = "0" -> 0 [] c = "1" -> 1 [] c = "2" -> 2 [] c = "3" -> 3
    [] c = "4" -> 4 [] c = "5" -> 5 [] c = "6" -> 6 [] c = "7" -> 7
    [] c = "8" -> 8 [] c = "9" -> 9

DigitChar(n) ==
  CASE n = 0 -> "0" [] n = 1 -> "1" [] n = 2 -> "2" [] n = 3 -> "3"
    [] n = 4 -> "4" [] n = 5 -> "5" [] n = 6 -> "6" [] n = 7 -> "7"
    [] n = 8 -> "8" [] n = 9 -> "9"

RECURSIVE TrimStart(_)
TrimStart(t) ==
  IF t # << >> /\ Head(t) \in WhiteSpace THEN TrimStart(Tail(t)) ELSE t

RECURSIVE TrimEnd(_)
TrimEnd(t) ==
  IF t # << >> /\ t[Len(t)] \in WhiteSpace
  THEN TrimEnd(SubSeq(t, 1, Len(t) - 1))
  ELSE t

\* String(value || '').trim()
Trim(t) == TrimEnd(TrimStart(t))

\* Number(text) of a run of decimal digits
RECURSIVE ToNumber(_)
ToNumber(t) ==
  IF t = << >> THEN 0
  ELSE 10 * ToNumber(SubSeq(t, 1, Len(t) - 1)) + DigitVal(t[Len(t)])

\* String(n) of a non-negative integer
RECURSIVE NumText(_)
NumText(n) ==
  IF n < 10 THEN << DigitChar(n) >>
  ELSE NumText(n \div 10) \o << DigitChar(n % 10) >>

\* String(n).padStart(2, '0')
PadStart2(n) == IF n < 10 THEN << "0" >> \o NumText(n) ELSE NumText(n)

\* number of consecutive digits of t from position i on, at most max
RECURSIVE DigitRun(_, _, _)
DigitRun(t, i, max) ==
  IF max = 0 \/ i > Len(t) \/ t[i] \notin Digits THEN 0
  ELSE 1 + DigitRun(t, i + 1, max - 1)

(***************************************************************************)
(* Calendar: what new Date(y, m, d), getFullYear/getMonth/getDate/getDay   *)
(* and setDate compute, on day numbers.                                    *)
(***************************************************************************)
Null == [isNull |-> TRUE, day |-> 0]

DateOf(n) == [isNull |-> FALSE, day |-> n]

\* day number of the civil date y-m-d (m in 1..12)
DaysFromCivil(y, m, d) ==
  LET Days(era, yoe, doy) ==
        era * 146097 + (yoe * 365 + yoe \div 4 - yoe \div 100 + doy) - 719468
      OfYear(yy, doy) == Days(yy \div 400, yy % 400, doy)
  IN  OfYear(IF m <= 2 THEN y - 1 ELSE y,
             (153 * (IF m > 2 THEN m - 3 ELSE m + 9) + 2) \div 5 + d - 1)

\* the civil date of a day number
CivilFromDays(n) ==
  LET Civil(era, yoe, doy, mp) ==
        [year  |-> yoe + era * 400 + (IF mp >= 10 THEN 1 ELSE 0),
         month |-> IF mp < 10 THEN mp + 3 ELSE mp - 9,
         date  |-> doy - (153 * mp + 2) \div 5 + 1]
      OfDoy(era, yoe, doy) == Civil(era, yoe, doy, (5 * doy + 2) \div 153)
      OfYoe(era, doe, yoe) ==
        OfDoy(era, yoe, doe - (365 * yoe + yoe \div 4 - yoe \div 100))
      OfDoe(era, doe) ==
        OfYoe(era, doe,
              (doe - doe \div 1460 + doe \div 36524 - doe \div 146096) \div 365)
      OfZ(z) == OfDoe(z \div 146097, z % 146097)
  IN  OfZ(n + 719468)

\* new Date(year, monthIndex, day): a year 0..99 means 1900 + year, and a
\* month index or a day outside the calendar rolls over into the
\* neighbouring months and years; the result is never an invalid Date
MakeDate(year, monthIndex, day) ==
  LET OfFull(fy) ==
        DateOf(DaysFromCivil(fy + monthIndex \div 12, (monthIndex % 12) + 1, 1)
                 + (day - 1))
  IN  OfFull(IF year >= 0 /\ year <= 99 THEN 1900 + year ELSE year)

\* Date.prototype.getDay: 0 = Sunday ... 6 = Saturday (1970-01-01 is a Thursday)
GetDay(n) == (n + 4) % 7

(***************************************************************************)
(* Local time.  new Date(y, m, d) is LOCAL midnight, so getTime() depends  *)
(* on the time zone of the host: "UTC" has no daylight saving, "US" is a   *)
(* United States zone (Pacific: UTC-8, UTC-7 in summer; summer time runs   *)
(* from 02:00 of the second Sunday of March to 02:00 of the first Sunday   *)
(* of November).                                                           *)
(***************************************************************************)
TimeZones == {"UTC", "US"}

FirstSundayOnOrAfter(n) == n + ((7 - GetDay(n)) % 7)

\* is local midnight of day n inside summer time
IsDstMidnight(n) ==
  LET InYear(y) ==
        /\ n > FirstSundayOnOrAfter(DaysFromCivil(y, 3, 1)) + 7
        /\ n <= FirstSundayOnOrAfter(DaysFromCivil(y, 11, 1))
  IN  InYear(CivilFromDays(n).year)

\* Date.prototype.getTime of local midnight of day n, in hours
GetTimeHours(n, zone) ==
  IF zone = "UTC" THEN n * 24
  ELSE n * 24 + (IF IsDstMidnight(n) THEN 7 ELSE 8)

\* Math.ceil(a / b) for b > 0
Ceil(a, b) == -((-a) \div b)

(***************************************************************************)
(* Date parsing and formatting                                             *)
(***************************************************************************)
NoMatch == [ok |-> FALSE, m1 |-> << >>, m2 |-> << >>, m3 |-> << >>, end |-> 0]

\* the length the group (\d{1,2}) takes at position i of t when a "/" must
\* follow it: two digits if it can, else one, else 0 (no match)
GroupLen(t, i) ==
  LET OfRun(n) ==
        IF n = 2 /\ i + 2 <= Len(t) /\ t[i + 2] = "/" THEN 2
        ELSE IF n >= 1 /\ i + 1 <= Len(t) /\ t[i + 1] = "/" THEN 1
        ELSE 0
  IN  OfRun(DigitRun(t, i, 2))

\* one attempt of the pattern (\d{1,2})\/(\d{1,2})\/(\d{lo,hi}) at position i
\* of t: greedy, with the backtracking the pattern allows
MatchDateAt(t, i, lo, hi) ==
  LET Year(j, k, l3) ==
        IF l3 < lo THEN NoMatch
        ELSE [ok |-> TRUE,
              m1 |-> SubSeq(t, i, j - 2),
              m2 |-> SubSeq(t, j, k - 2),
              m3 |-> SubSeq(t, k, k + l3 - 1),
              end |-> k + l3 - 1]
      Day(j, l2) ==
        IF l2 = 0 THEN NoMatch
        ELSE Year(j, j + l2 + 1, DigitRun(t, j + l2 + 1, hi))
      Month(l1) ==
        IF l1 = 0 THEN NoMatch
        ELSE Day(i + l1 + 1, GroupLen(t, i + l1 + 1))
  IN  Month(GroupLen(t, i))

\* shared/utils.js parseUSDate: the whole trimmed text must be M/D/YYYY
parseUSDate(text) ==
  LET OfMatch(value, m) ==
        IF ~(m.ok /\ m.end = Len(value)) THEN Null
        ELSE MakeDate(ToNumber(m.m3), ToNumber(m.m1) - 1, ToNumber(m.m2))
      OfValue(value) == OfMatch(value, MatchDateAt(value, 1, 4, 4))
  IN  OfValue(Trim(text))

\* String.prototype.match without the g flag: the match at the leftmost
\* position of t, from i on, where the pattern matches
RECURSIVE FirstDateMatch(_, _, _, _)
FirstDateMatch(t, i, lo, hi) ==
  LET Try(m) == IF m.ok \/ i > Len(t) THEN m ELSE FirstDateMatch(t, i + 1, lo, hi)
  IN  Try(MatchDateAt(t, i, lo, hi))

\* the lenient parser: the first place of the text where the pattern matches
parseAnyUSDate(value) ==
  LET OfYear(m, y0) ==
        MakeDate(IF y0 < 100 THEN y0 + (IF y0 >= 70 THEN 1900 ELSE 2000) ELSE y0,
                 ToNumber(m.m1) - 1, ToNumber(m.m2))
      OfMatch(m) == IF ~m.ok THEN Null ELSE OfYear(m, ToNumber(m.m3))
      OfText(text) ==
        IF text = << >> THEN Null ELSE OfMatch(FirstDateMatch(text, 1, 2, 4))
  IN  OfText(Trim(value))

formatUSDate(d) ==
  LET Format(c) ==
        PadStart2(c.month) \o << "/" >> \o PadStart2(c.date) \o << "/" >>
          \o NumText(c.year)
  IN  Format(CivilFromDays(d.day))

\* a faulty parser: a text without a date yields the epoch instead of null
parseMetricDate_Epoch(v) ==
  LET OrEpoch(d) == IF d.isNull THEN DateOf(0) ELSE d
  IN  OrEpoch(parseAnyUSDate(v))

parseMetricDate(v) == parseAnyUSDate(v)

\* 'MM/DD/YYYY' -> 'YYYY-MM-DD', anything else -> ''
toInputDate(dateUS) ==
  LET OfText(t) ==
        IF Len(t) = 10 /\ DigitRun(t, 1, 2) = 2 /\ t[3] = "/"
           /\ DigitRun(t, 4, 2) = 2 /\ t[6] = "/" /\ DigitRun(t, 7, 4) = 4
        THEN SubSeq(t, 7, 10) \o << "-" >> \o SubSeq(t, 1, 2) \o << "-" >>
               \o SubSeq(t, 4, 5)
        ELSE << >>
  IN  OfText(Trim(dateUS))

addDays(d, days) == DateOf(d.day + days)

\* a faulty shift: Saturday is moved by one day only, to Sunday
shiftToMondayIfWeekend_OneDay(d) ==
  LET Shift(wd) == IF wd = 6 \/ wd = 0 THEN DateOf(d.day + 1) ELSE d
  IN  Shift(GetDay(d.day))

shiftToMondayIfWeekend(d) ==
  LET Shift(wd) ==
        IF wd = 6 THEN DateOf(d.day + 2)
        ELSE IF wd = 0 THEN DateOf(d.day + 1)
        ELSE d
  IN  Shift(GetDay(d.day))

shiftToFridayIfWeekend(d) ==
  LET Shift(wd) ==
        IF wd = 6 THEN DateOf(d.day - 1)
        ELSE IF wd = 0 THEN DateOf(d.day - 2)
        ELSE d
  IN  Shift(GetDay(d.day))

nextBusinessDay(d) == shiftToMondayIfWeekend(DateOf(d.day + 1))

(***************************************************************************)
(* Status classifier                                                       *)
(***************************************************************************)
\* a faulty colour table: the red class is missing
statusClass_NoRed(status) ==
  IF status = "On Track" \/ status = "Completed" THEN "status-pill-green"
  ELSE IF status = "Potential Roadblock" THEN "status-pill-yellow"
  ELSE "status-pill-neutral"

statusClass(status) ==
  IF status = "On Track" \/ status = "Completed" THEN "status-pill-green"
  ELSE IF status = "Potential Roadblock" THEN "status-pill-yellow"
  ELSE IF status = "Roadblock/Overage" THEN "status-pill-red"
  ELSE "status-pill-neutral"

\* a faulty classifier: a non-kickoff step is classified by its ECD before
\* its ACD is looked at
computeStepStatus_EcdFirst(step, now, zone) ==
  LET OfDiff(diffDays) == IF diffDays < 0 THEN "Roadblock/Overage"
                          ELSE IF diffDays <= 3 THEN "Potential Roadblock"
                          ELSE "On Track"
      OfEcd(ecd) == IF ecd.isNull
                    THEN (IF step.ACD # << >> THEN "On Track" ELSE "Not Started")
                    ELSE OfDiff(Ceil(GetTimeHours(ecd.day, zone)
                                       - GetTimeHours(now, zone), 24))
  IN  IF step.isKickoff
      THEN (IF step.ACD # << >> THEN "Completed" ELSE "Not Started")
      ELSE OfEcd(parseUSDate(step.ECD))

\* now is the wall clock of the call: its local date and the host's zone
computeStepStatus(step, now, zone) ==
  LET OfDiff(diffDays) ==
        IF diffDays < 0 THEN "Roadblock/Overage"
        ELSE IF diffDays <= 3 THEN "Potential Roadblock"
        ELSE "On Track"
      OfEcd(ecd) ==
        IF ecd.isNull THEN "Not Started"
        ELSE OfDiff(Ceil(GetTimeHours(ecd.day, zone) - GetTimeHours(now, zone), 24))
  IN  IF step.ACD # << >> THEN (IF step.isKickoff THEN "Completed" ELSE "On Track")
      ELSE IF step.isKickoff THEN "Not Started"
      ELSE IF step.ECD = << >> THEN "Not Started"
      ELSE OfEcd(parseUSDate(step.ECD))

(***************************************************************************)
(* Step maps.  A step map is the sequence of its steps in insertion order; *)
(* the key of a step (its display name) is the field name.                 *)
(***************************************************************************)
\* the value of a statement sequence: F applied to the value e that the
\* statements before it have produced
Then(e, F(_)) == CHOOSE r \in {F(x) : x \in {e}} : TRUE

NoName == "<null>"

\* the slugs of the model that contain the text 'kickoff'
KickoffSlugs == {"sra_kickoff", "nva_kickoff"}

IncludesKickoff(slug) == slug \in KickoffSlugs

\* the name of the first step of the map, from position i on, whose slug is
\* one of slugs; null if there is none
RECURSIVE FindName(_, _, _)
FindName(stepMap, slugs, i) ==
  IF i > Len(stepMap) THEN NoName
  ELSE IF stepMap[i].step_slug \in slugs THEN stepMap[i].name
  ELSE FindName(stepMap, slugs, i + 1)

\* Object.keys(stepMap).find(name => stepMap[name].step_slug === slug) || null
findStepNameBySlug(stepMap, slug) == FindName(stepMap, {slug}, 1)

\* the position of the key name in the step map
SlotOf(stepMap, name) == CHOOSE i \in 1..Len(stepMap) : stepMap[i].name = name

\* stepMap[name]
StepOf(stepMap, name) == stepMap[SlotOf(stepMap, name)]

\* stepMap[name].ECD = text
WithECD(stepMap, name, text) ==
  [stepMap EXCEPT ![SlotOf(stepMap, name)].ECD = text]

\* parseMetricDate(step.ACD) || parseMetricDate(step.ECD)
AcdOrEcd(step) ==
  LET Or(acd) == IF ~acd.isNull THEN acd ELSE parseMetricDate(step.ECD)
  IN  Or(parseMetricDate(step.ACD))

\* a faulty anchor: the ECD of the anchor step is preferred to its ACD
anchorDateForSlug_EcdFirst(stepMap, slug) ==
  LET Or(step, ecd) == IF ~ecd.isNull THEN ecd ELSE parseMetricDate(step.ACD)
      OfStep(step) == Or(step, parseMetricDate(step.ECD))
      OfName(name) == IF name = NoName THEN Null ELSE OfStep(StepOf(stepMap, name))
  IN  OfName(findStepNameBySlug(stepMap, slug))

anchorDateForSlug(stepMap, slug) ==
  LET OfName(name) ==
        IF name = NoName THEN Null ELSE AcdOrEcd(StepOf(stepMap, name))
  IN  OfName(findStepNameBySlug(stepMap, slug))

\* a faulty setter: the ECD is written whether or not the step has one
setEcdFromDateIfBlank_Always(stepMap, slug, anchorDate, days) ==
  LET OfName(name) ==
        IF name = NoName \/ anchorDate.isNull THEN stepMap
        ELSE WithECD(stepMap, name,
               formatUSDate(shiftToMondayIfWeekend(addDays(anchorDate, days))))
  IN  OfName(findStepNameBySlug(stepMap, slug))

setEcdFromDateIfBlank(stepMap, slug, anchorDate, days) ==
  LET OfName(name) ==
        IF name = NoName \/ anchorDate.isNull THEN stepMap
        ELSE IF Trim(StepOf(stepMap, name).ECD) # << >> THEN stepMap
        ELSE WithECD(stepMap, name,
               formatUSDate(shiftToMondayIfWeekend(addDays(anchorDate, days))))
  IN  OfName(findStepNameBySlug(stepMap, slug))

setEcdIfBlank(stepMap, slug, anchorSlug, days) ==
  setEcdFromDateIfBlank(stepMap, slug, anchorDateForSlug(stepMap, anchorSlug), days)

\* a > b ? a : b on two dates
LaterOf(a, b) == IF a.day > b.day THEN a ELSE b

\* dates.reduce((a, b) => (a > b ? a : b)) on a non-empty list of dates
RECURSIVE ReduceLatest(_)
ReduceLatest(dates) ==
  IF Len(dates) = 1 THEN dates[1]
  ELSE LaterOf(ReduceLatest(SubSeq(dates, 1, Len(dates) - 1)), dates[Len(dates)])

\* the dates of a list that are not null, in order
RECURSIVE FilterDates(_)
FilterDates(dates) ==
  IF dates = << >> THEN << >>
  ELSE (IF Head(dates).isNull THEN << >> ELSE << Head(dates) >>)
         \o FilterDates(Tail(dates))

\* if (dates.length) { latest = reduce; if (d <= latest) d = nextBusinessDay(latest) }
NotBefore(d, dates) ==
  LET Against(latest) == IF d.day <= latest.day THEN nextBusinessDay(latest) ELSE d
  IN  IF dates = << >> THEN d ELSE Against(ReduceLatest(dates))

\* the first step whose slug contains 'kickoff'
KickoffName(stepMap) == FindName(stepMap, KickoffSlugs, 1)

\* kickoffName ? String(stepMap[kickoffName].step_slug) : ''
KickoffSlugOf(stepMap) ==
  LET OfName(name) ==
        IF name = NoName THEN "" ELSE StepOf(stepMap, name).step_slug
  IN  OfName(KickoffName(stepMap))

\* a faulty kickoff block: the ECD of the kickoff step is set only when blank
ForceKickoff_KeepEcd(stepMap) ==
  LET OfSlot(k) ==
        [stepMap EXCEPT ![k].ECD = IF @ = << >> THEN stepMap[k].ACD ELSE @,
                        ![k].ecd.editable = FALSE]
      OfName(kickoffName) ==
        IF kickoffName = NoName THEN stepMap
        ELSE OfSlot(SlotOf(stepMap, kickoffName))
  IN  OfName(KickoffName(stepMap))

\* the kickoff block of addEcdAcdFields: the kickoff step gets ECD = ACD and
\* is not editable
ForceKickoff(stepMap) ==
  LET OfSlot(k) ==
        [stepMap EXCEPT ![k].ECD = stepMap[k].ACD, ![k].ecd.editable = FALSE]
      OfName(kickoffName) ==
        IF kickoffName = NoName THEN stepMap
        ELSE OfSlot(SlotOf(stepMap, kickoffName))
  IN  OfName(KickoffName(stepMap))

\* go_onsite_have_interview: its own ACD wins, else review_policies + 7
RuleGoOnsite(stepMap) ==
  LET OfAcd(goName, goAcd) ==
        IF ~goAcd.isNull THEN WithECD(stepMap, goName, formatUSDate(goAcd))
        ELSE setEcdIfBlank(stepMap, "go_onsite_have_interview",
                           "review_policies_and_procedures_baa", 7)
      OfName(goName) ==
        IF goName = NoName THEN stepMap
        ELSE OfAcd(goName, parseMetricDate(StepOf(stepMap, goName).ACD))
  IN  OfName(findStepNameBySlug(stepMap, "go_onsite_have_interview"))

\* name ? parseMetricDate(stepMap[name]?.field) : null
DateOfField(stepMap, name, field) ==
  IF name = NoName THEN Null
  ELSE parseMetricDate(IF field = "ACD" THEN StepOf(stepMap, name).ACD
                       ELSE StepOf(stepMap, name).ECD)

\* the ECD of the step of a slug, parsed; null when the step is absent
EcdOfSlug(stepMap, slug) ==
  DateOfField(stepMap, findStepNameBySlug(stepMap, slug), "ECD")

\* the ACD of the step of a slug, parsed; null when the step is absent
AcdOfSlug(stepMap, slug) ==
  DateOfField(stepMap, findStepNameBySlug(stepMap, slug), "ACD")

\* a faulty review_sra rule: the ECDs of the two sibling steps are not looked at
RuleReviewSra_NoSiblings(stepMap) ==
  LET OfAnchor(reviewName, goAnchor) ==
        IF goAnchor.isNull THEN stepMap
        ELSE WithECD(stepMap, reviewName,
               formatUSDate(shiftToMondayIfWeekend(addDays(goAnchor, 15))))
      OfPresent(reviewName, presentAcd) ==
        IF ~presentAcd.isNull
        THEN WithECD(stepMap, reviewName,
               formatUSDate(shiftToFridayIfWeekend(addDays(presentAcd, -1))))
        ELSE OfAnchor(reviewName,
                      anchorDateForSlug(stepMap, "go_onsite_have_interview"))
      OfName(reviewName) ==
        IF reviewName = NoName THEN stepMap
        ELSE IF Trim(StepOf(stepMap, reviewName).ECD) # << >> THEN stepMap
        ELSE OfPresent(reviewName, AcdOfSlug(stepMap, "present_final_sra_report"))
  IN  OfName(findStepNameBySlug(stepMap, "review_sra"))

RuleReviewSra(stepMap) ==
  LET Siblings ==
        FilterDates(<< EcdOfSlug(stepMap, "recieve_requested_follow_up_documentation"),
                       EcdOfSlug(stepMap, "schedule_final_sra_report") >>)
      OfAnchor(reviewName, goAnchor) ==
        IF goAnchor.isNull THEN stepMap
        ELSE WithECD(stepMap, reviewName,
               formatUSDate(NotBefore(shiftToMondayIfWeekend(addDays(goAnchor, 15)),
                                      Siblings)))
      OfPresent(reviewName, presentAcd) ==
        IF ~presentAcd.isNull
        THEN WithECD(stepMap, reviewName,
               formatUSDate(shiftToFridayIfWeekend(addDays(presentAcd, -1))))
        ELSE OfAnchor(reviewName,
                      anchorDateForSlug(stepMap, "go_onsite_have_interview"))
      OfName(reviewName) ==
        IF reviewName = NoName THEN stepMap
        ELSE IF Trim(StepOf(stepMap, reviewName).ECD) # << >> THEN stepMap
        ELSE OfPresent(reviewName, AcdOfSlug(stepMap, "present_final_sra_report"))
  IN  OfName(findStepNameBySlug(stepMap, "review_sra"))

\* a faulty reviewAnchor: the review ACD whenever there is one
ReviewAnchor_AcdFirst(reviewEcd, reviewAcd) ==
  IF ~reviewAcd.isNull THEN reviewAcd ELSE reviewEcd

\* reviewAnchor: the review ECD, or the review ACD when it is the later one
\* or the only one
ReviewAnchor(reviewEcd, reviewAcd) ==
  IF ~reviewAcd.isNull /\ (reviewEcd.isNull \/ reviewAcd.day > reviewEcd.day)
  THEN reviewAcd
  ELSE reviewEcd

RulePresentSra(stepMap) ==
  LET PrereqDates ==
        FilterDates(
          << anchorDateForSlug(stepMap, "recieve_requested_follow_up_documentation"),
             anchorDateForSlug(stepMap, "schedule_final_sra_report"),
             anchorDateForSlug(stepMap, "review_sra") >>)
      OfAnchor(presentSraName, reviewAnchor) ==
        IF reviewAnchor.isNull THEN stepMap
        ELSE WithECD(stepMap, presentSraName,
               formatUSDate(NotBefore(shiftToMondayIfWeekend(addDays(reviewAnchor, 7)),
                                      PrereqDates)))
      OfAcd(presentSraName, presentAcd) ==
        IF ~presentAcd.isNull
        THEN WithECD(stepMap, presentSraName, formatUSDate(presentAcd))
        ELSE OfAnchor(presentSraName,
                      ReviewAnchor(EcdOfSlug(stepMap, "review_sra"),
                                   AcdOfSlug(stepMap, "review_sra")))
      OfName(presentSraName) ==
        IF presentSraName = NoName THEN stepMap
        ELSE IF Trim(StepOf(stepMap, presentSraName).ECD) # << >> THEN stepMap
        ELSE OfAcd(presentSraName,
                   parseMetricDate(StepOf(stepMap, presentSraName).ACD))
  IN  OfName(findStepNameBySlug(stepMap, "present_final_sra_report"))

\* a faulty scans_complete rule: the kickoff is used only when both ACDs are
\* missing
RuleScansComplete_BothMissing(stepMap) ==
  LET OfAcds(receiveAcd, verifyAcd) ==
        IF receiveAcd.isNull /\ verifyAcd.isNull
        THEN setEcdFromDateIfBlank(stepMap, "scans_complete",
                                   anchorDateForSlug(stepMap, "nva_kickoff"), 28)
        ELSE setEcdFromDateIfBlank(stepMap, "scans_complete",
                                   LaterOf(receiveAcd, verifyAcd), 21)
      OfName(scansName) ==
        IF scansName = NoName THEN stepMap
        ELSE IF Trim(StepOf(stepMap, scansName).ECD) # << >> THEN stepMap
        ELSE OfAcds(AcdOfSlug(stepMap, "receive_credentials"),
                    AcdOfSlug(stepMap, "verify_access"))
  IN  OfName(findStepNameBySlug(stepMap, "scans_complete"))

RuleScansComplete(stepMap) ==
  LET OfAcds(receiveAcd, verifyAcd) ==
        IF receiveAcd.isNull \/ verifyAcd.isNull
        THEN setEcdFromDateIfBlank(stepMap, "scans_complete",
                                   anchorDateForSlug(stepMap, "nva_kickoff"), 28)
        ELSE setEcdFromDateIfBlank(stepMap, "scans_complete",
                                   LaterOf(receiveAcd, verifyAcd), 21)
      OfName(scansName) ==
        IF scansName = NoName THEN stepMap
        ELSE IF Trim(StepOf(stepMap, scansName).ECD) # << >> THEN stepMap
        ELSE OfAcds(AcdOfSlug(stepMap, "receive_credentials"),
                    AcdOfSlug(stepMap, "verify_access"))
  IN  OfName(findStepNameBySlug(stepMap, "scans_complete"))

\* a faulty day before: a weekend day is moved forward, to Monday
DayBefore_Forward(presentNvaAcd) ==
  formatUSDate(shiftToMondayIfWeekend(addDays(presentNvaAcd, -1)))

\* formatUSDate(shiftToFridayIfWeekend(addDays(presentNvaAcd, -1)))
DayBefore(presentNvaAcd) ==
  formatUSDate(shiftToFridayIfWeekend(addDays(presentNvaAcd, -1)))

\* compile_report (days 7) and access_removed (days 5)
RuleBeforePresent(stepMap, slug, presentNvaAcd, scansEcd, days) ==
  LET OfName(name) ==
        IF name = NoName THEN stepMap
        ELSE IF ~presentNvaAcd.isNull
        THEN WithECD(stepMap, name, DayBefore(presentNvaAcd))
        ELSE setEcdFromDateIfBlank(stepMap, slug, scansEcd, days)
  IN  OfName(findStepNameBySlug(stepMap, slug))

RuleScheduleNva(stepMap, scansAcd, scansEcd) ==
  IF findStepNameBySlug(stepMap, "schedule_final_nva_report") = NoName THEN stepMap
  ELSE IF ~scansAcd.isNull
  THEN setEcdFromDateIfBlank(stepMap, "schedule_final_nva_report", scansAcd, 21)
  ELSE setEcdFromDateIfBlank(stepMap, "schedule_final_nva_report", scansEcd, 12)

\* a faulty presentation rule: 5 days after scans_complete, not 19
RulePresentNva_Early(stepMap, presentNvaAcd, scansEcd) ==
  LET OfName(presentNvaName) ==
        IF presentNvaName = NoName THEN stepMap
        ELSE IF ~presentNvaAcd.isNull
        THEN WithECD(stepMap, presentNvaName, formatUSDate(presentNvaAcd))
        ELSE setEcdFromDateIfBlank(stepMap, "present_final_nva_report", scansEcd, 5)
  IN  OfName(findStepNameBySlug(stepMap, "present_final_nva_report"))

RulePresentNva(stepMap, presentNvaAcd, scansEcd) ==
  LET OfName(presentNvaName) ==
        IF presentNvaName = NoName THEN stepMap
        ELSE IF ~presentNvaAcd.isNull
        THEN WithECD(stepMap, presentNvaName, formatUSDate(presentNvaAcd))
        ELSE setEcdFromDateIfBlank(stepMap, "present_final_nva_report", scansEcd, 19)
  IN  OfName(findStepNameBySlug(stepMap, "present_final_nva_report"))

\* compile_report, access_removed, schedule_final_nva_report and
\* present_final_nva_report, all from the scans_complete dates and the
\* present_final_nva_report ACD read once, before the four of them
RuleNvaTail(stepMap) ==
  LET Tail4(scansEcd, scansAcd, presentNvaAcd) ==
        RulePresentNva(
          RuleScheduleNva(
            RuleBeforePresent(
              RuleBeforePresent(stepMap, "compile_report", presentNvaAcd, scansEcd, 7),
              "access_removed", presentNvaAcd, scansEcd, 5),
            scansAcd, scansEcd),
          presentNvaAcd, scansEcd)
  IN  Tail4(EcdOfSlug(stepMap, "scans_complete"),
            AcdOfSlug(stepMap, "scans_complete"),
            AcdOfSlug(stepMap, "present_final_nva_report"))

\* the slugs the fallback loop skips
\* a faulty set of explicit slugs: go_onsite_have_interview is missing
explicit_Partial ==
  {"receive_policies_and_procedures_baa", "review_policies_and_procedures_baa",
   "schedule_onsite_remote_interview",
   "recieve_requested_follow_up_documentation", "review_sra",
   "schedule_final_sra_report", "present_final_sra_report", "sra_kickoff",
   "receive_credentials", "verify_access", "scans_complete", "access_removed",
   "compile_report", "schedule_final_nva_report", "present_final_nva_report",
   "nva_kickoff"}

explicit ==
  {"receive_policies_and_procedures_baa", "review_policies_and_procedures_baa",
   "schedule_onsite_remote_interview", "go_onsite_have_interview",
   "recieve_requested_follow_up_documentation", "review_sra",
   "schedule_final_sra_report", "present_final_sra_report", "sra_kickoff",
   "receive_credentials", "verify_access", "scans_complete", "access_removed",
   "compile_report", "schedule_final_nva_report", "present_final_nva_report",
   "nva_kickoff"}

\* one iteration of the fallback loop
FallbackRule(stepMap, slug, offset, kickoffSlug) ==
  IF slug \in explicit THEN stepMap
  ELSE IF kickoffSlug # "" THEN setEcdIfBlank(stepMap, slug, kickoffSlug, offset)
  ELSE stepMap

\* for (const [slug, offset] of Object.entries(offsets)) ...
RECURSIVE FallbackRules(_, _, _)
FallbackRules(stepMap, offsets, kickoffSlug) ==
  IF offsets = << >> THEN stepMap
  ELSE FallbackRules(FallbackRule(stepMap, Head(offsets)[1], Head(offsets)[2],
                                  kickoffSlug),
                     Tail(offsets), kickoffSlug)

NotSetText == << "N", "o", "t", " ", "s", "e", "t" >>

\* the status and data bindings of one step
BindStep(step0, now, zone) ==
  LET Bind(step, st) ==
        [step EXCEPT
           !.status = st,
           !.status_class = statusClass(st),
           !.ecd.value = IF step.ECD # << >> THEN step.ECD ELSE NotSetText,
           !.acd.value = IF step.ACD # << >> THEN step.ACD ELSE NotSetText,
           !.ecd.input_value = toInputDate(step.ECD),
           !.acd.input_value = toInputDate(step.ACD),
           !.ecd.editable = IF ~step.isKickoff THEN TRUE ELSE step.ecd.editable]
      OfStep(step) == Bind(step, computeStepStatus(step, now, zone))
  IN  OfStep([step0 EXCEPT !.isKickoff = IncludesKickoff(step0.step_slug)])

\* for (const step of Object.values(stepMap)) ...
RECURSIVE BindSteps(_, _, _)
BindSteps(stepMap, now, zone) ==
  IF stepMap = << >> THEN << >>
  ELSE << BindStep(Head(stepMap), now, zone) >> \o BindSteps(Tail(stepMap), now, zone)

\* the statements of addEcdAcdFields in their order: the kickoff block, the
\* SRA explicit rules, the NVA explicit rules, the fallback offset rules, the
\* status and data bindings
addEcdAcdFields(stepMap, offsets, now, zone) ==
  Then(Then(Then(Then(Then(Then(Then(Then(Then(Then(Then(Then(Then(Then(
    ForceKickoff(stepMap),
    LAMBDA m : setEcdIfBlank(m, "receive_policies_and_procedures_baa",
                                "sra_kickoff", 7)),
    LAMBDA m : setEcdIfBlank(m, "review_policies_and_procedures_baa",
                                "receive_policies_and_procedures_baa", 12)),
    LAMBDA m : setEcdIfBlank(m, "schedule_onsite_remote_interview",
                                "sra_kickoff", 14)),
    RuleGoOnsite),
    LAMBDA m : setEcdIfBlank(m, "recieve_requested_follow_up_documentation",
                                "go_onsite_have_interview", 14)),
    LAMBDA m : setEcdIfBlank(m, "schedule_final_sra_report",
                                "go_onsite_have_interview", 14)),
    RuleReviewSra),
    RulePresentSra),
    LAMBDA m : setEcdIfBlank(m, "receive_credentials", "nva_kickoff", 7)),
    LAMBDA m : setEcdIfBlank(m, "verify_access", "receive_credentials", 7)),
    RuleScansComplete),
    RuleNvaTail),
    LAMBDA m : FallbackRules(m, offsets, KickoffSlugOf(stepMap))),
    LAMBDA m : BindSteps(m, now, zone))

(***************************************************************************)
(* Step registry: display names, owners, canonical orders                  *)
(***************************************************************************)
UpperLetters == << "A", "B", "C", "D", "E", "F", "G", "H", "I", "J", "K", "L", "M",
                   "N", "O", "P", "Q", "R", "S", "T", "U", "V", "W", "X", "Y", "Z" >>

LowerLetters == << "a", "b", "c", "d", "e", "f", "g", "h", "i", "j", "k", "l", "m",
                   "n", "o", "p", "q", "r", "s", "t", "u", "v", "w", "x", "y", "z" >>

\* String.prototype.toLowerCase on a text
ToLowerCase(t) ==
  [i \in 1..Len(t) |->
     IF \E k \in 1..26 : UpperLetters[k] = t[i]
     THEN LowerLetters[CHOOSE k \in 1..26 : UpperLetters[k] = t[i]]
     ELSE t[i]]

\* String.prototype.includes on texts
Includes(t, pat) ==
  \E i \in 1..(Len(t) - Len(pat) + 1) : SubSeq(t, i, i + Len(pat) - 1) = pat

\* toLowerCase on the parts of a metric key (the key parts of the model)
LowerPart(p) ==
  CASE p = "SRA" -> "sra"
    [] p = "NVA" -> "nva"
    [] p = "SRA_KICKOFF" -> "sra_kickoff"
    [] p = "DATE" -> "date"
    [] p = "ECD" -> "ecd"
    [] OTHER -> p

\* titleCase on the slugs, field names and task statuses of the model
titleCase(value) ==
  CASE value = "custom_step" -> "Custom Step"
    [] value = "audit_prep" -> "Audit Prep"
    [] value = "notes" -> "Notes"
    [] value = "in progress" -> "In Progress"
    [] value = "complete" -> "Complete"
    [] OTHER -> value

sraOrder ==
  << "sra_kickoff", "receive_policies_and_procedures_baa",
     "review_policies_and_procedures_baa", "schedule_onsite_remote_interview",
     "go_onsite_have_interview", "recieve_requested_follow_up_documentation",
     "review_sra", "schedule_final_sra_report", "present_final_sra_report" >>

nvaOrder ==
  << "nva_kickoff", "receive_credentials", "verify_access", "scans_complete",
     "access_removed", "compile_report", "schedule_final_nva_report",
     "present_final_nva_report" >>

OnsiteText == << "o", "n", "s", "i", "t", "e" >>

RemoteText == << "r", "e", "m", "o", "t", "e" >>

stepDisplayName(section, slug, location) ==
  LET loc    == ToLowerCase(location)
      onsite == Includes(loc, OnsiteText)
      remote == Includes(loc, RemoteText)
  IN  IF slug = "schedule_onsite_remote_interview"
      THEN (IF onsite /\ ~remote THEN "Schedule Onsite Visit"
            ELSE IF remote /\ ~onsite THEN "Schedule Interview Sessions"
            ELSE "Schedule Onsite/Remote Interview")
      ELSE IF slug = "go_onsite_have_interview"
      THEN (IF onsite /\ ~remote THEN "Go Onsite/Have Interviews"
            ELSE IF remote /\ ~onsite THEN "Conduct Interview Sessions"
            ELSE "Go Onsite/Have Interviews")
      ELSE
        CASE slug = "sra_kickoff" -> "SRA Kickoff"
          [] slug = "receive_policies_and_procedures_baa"
               -> "Receive Policies and Procedures / BAA"
          [] slug = "review_policies_and_procedures_baa"
               -> "Review Policies and Procedures / BAA"
          [] slug = "recieve_requested_follow_up_documentation"
               -> "Recieve Requested Follow up Documentation"
          [] slug = "review_sra" -> "Review SRA"
          [] slug = "schedule_final_sra_report" -> "Schedule Final SRA Report"
          [] slug = "present_final_sra_report" -> "Present Final SRA Report"
          [] slug = "nva_kickoff" -> "NVA Kickoff"
          [] slug = "receive_credentials" -> "Receive Credentials"
          [] slug = "verify_access" -> "Verify Access"
          [] slug = "scans_complete" -> "Scans Complete"
          [] slug = "access_removed" -> "Access Removed"
          [] slug = "compile_report" -> "Compile Report"
          [] slug = "schedule_final_nva_report" -> "Schedule Final NVA Report"
          [] slug = "present_final_nva_report" -> "Present Final NVA Report"
          [] OTHER -> titleCase(slug)

\* the owner label: "Medcurity", "Medcurity & <client>", the client, or
\* "Not assigned"
stepOwner(section, slug, clientName) ==
  IF slug \in {"sra_kickoff", "go_onsite_have_interview", "review_sra",
               "present_final_sra_report", "nva_kickoff", "scans_complete",
               "access_removed", "present_final_nva_report"}
  THEN << "Medcurity" >>
  ELSE IF slug \in {"schedule_onsite_remote_interview",
                    "receive_policies_and_procedures_baa",
                    "review_policies_and_procedures_baa"}
  THEN << "Medcurity & ", clientName >>
  ELSE IF clientName # "" THEN << clientName >> ELSE << "Not assigned" >>

(***************************************************************************)
(* Dashboard assembler                                                     *)
(***************************************************************************)
\* metrics[key]: the value of the last entry written under the key, '' if none
MetricValue(metrics, key) ==
  LET hits == {i \in 1..Len(metrics) : metrics[i].key = key}
  IN  IF hits = {} THEN << >>
      ELSE metrics[CHOOSE i \in hits : \A j \in hits : i >= j].value

RECURSIVE getMetric(_, _)
getMetric(metrics, keys) ==
  IF keys = << >> THEN << >>
  ELSE LET value == Trim(MetricValue(metrics, Head(keys)))
       IN  IF value # << >> THEN value ELSE getMetric(metrics, Tail(keys))

TrueText == << "t", "r", "u", "e" >>

OneText == << "1" >>

YesText == << "y", "e", "s" >>

parseBool(v) ==
  LET t == ToLowerCase(Trim(v))
  IN  t = TrueText \/ t = OneText \/ t = YesText

\* the step record a metric key creates when its step is not in the map yet
NewStep(section, slug, stepName, taskName) ==
  [name         |-> stepName,
   step_slug    |-> slug,
   Status       |-> "Not Started",
   Owner        |-> stepOwner(section, slug, taskName),
   ECD          |-> << >>,
   ACD          |-> << >>,
   ecd          |-> [editable |-> TRUE, metric_key |-> << section, slug, "ecd" >>,
                     value |-> << >>, input_value |-> << >>],
   acd          |-> [editable |-> TRUE, metric_key |-> << section, slug, "date" >>,
                     value |-> << >>, input_value |-> << >>],
   extras       |-> << >>,
   status_class |-> "status-pill-neutral",
   status       |-> "Not Started",
   isKickoff    |-> FALSE]

HasName(stepMap, name) == \E i \in 1..Len(stepMap) : stepMap[i].name = name

\* target[stepName] = target[stepName] || { step_slug: slug, ... }
EnsureStep(target, section, slug, stepName, taskName) ==
  IF HasName(target, stepName) THEN target
  ELSE Append(target, NewStep(section, slug, stepName, taskName))

\* the assignment of one metric value to the ACD, the ECD or the extras of
\* the step at position k
AssignField(target, k, field, text) ==
  IF field = "date" \/ field = "acd" THEN [target EXCEPT ![k].ACD = text]
  ELSE IF field = "ecd" THEN [target EXCEPT ![k].ECD = text]
  ELSE [target EXCEPT ![k].extras =
          Append(@, [label |-> titleCase(field),
                     value |-> IF text # << >> THEN text ELSE NotSetText])]

\* one iteration of the bucketing loop on the step map of the entry's section
BucketEntry(target, section, slug, field, value, location, taskName) ==
  LET Assign(t1, stepName) ==
        AssignField(t1, SlotOf(t1, stepName), field, Trim(value))
      Named(stepName) ==
        Assign(EnsureStep(target, section, slug, stepName, taskName), stepName)
  IN  Named(stepDisplayName(section, slug, location))

\* the iteration of the bucketing loop for one entry, on the step map of the
\* section wanted
BucketOne(acc, entry, wanted, location, taskName) ==
  IF Len(entry.key) < 3 THEN acc
  ELSE IF LowerPart(entry.key[1]) # wanted THEN acc
  ELSE BucketEntry(acc, wanted, LowerPart(entry.key[2]), LowerPart(entry.key[3]),
                   entry.value, location, taskName)

\* the bucketing loop over Object.entries(metrics) for one section; acc is
\* the step map the earlier iterations have built (its length is read so
\* that each iteration is computed before the next one starts)
RECURSIVE BucketSteps(_, _, _, _, _)
BucketSteps(metrics, wanted, location, taskName, acc) ==
  IF metrics = << >> \/ Len(acc) < 0 THEN acc
  ELSE BucketSteps(Tail(metrics), wanted, location, taskName,
                   BucketOne(acc, Head(metrics), wanted, location, taskName))

\* the fallback offsets buildDashboard passes for each track
sraOffsets ==
  << << "receive_policies_and_procedures_baa", 7 >>,
     << "review_policies_and_procedures_baa", 19 >>,
     << "schedule_onsite_remote_interview", 14 >>,
     << "go_onsite_have_interview", 21 >>,
     << "recieve_requested_follow_up_documentation", 28 >>,
     << "review_sra", 35 >>,
     << "schedule_final_sra_report", 42 >>,
     << "present_final_sra_report", 49 >> >>

nvaOffsets ==
  << << "receive_credentials", 7 >>,
     << "verify_access", 14 >>,
     << "scans_complete", 21 >>,
     << "access_removed", 28 >>,
     << "compile_report", 35 >>,
     << "schedule_final_nva_report", 42 >>,
     << "present_final_nva_report", 49 >> >>

\* order.indexOf(slug), -1 when absent (positions count from 0)
RECURSIVE IndexFrom(_, _, _)
IndexFrom(order, slug, i) ==
  IF i > Len(order) THEN -1
  ELSE IF order[i] = slug THEN i - 1
  ELSE IndexFrom(order, slug, i + 1)

IndexOf(order, slug) == IndexFrom(order, slug, 1)

\* the display names of the model in localeCompare order
NameRank(name) ==
  CASE name = "Audit Prep" -> 1
    [] name = "Custom Step" -> 2
    [] OTHER -> 3

\* a faulty comparator: the indexes are subtracted as they are, -1 included
CompareSteps_RawIndex(a, b, order) ==
  IndexOf(order, a.step_slug) - IndexOf(order, b.step_slug)

\* the comparator of orderSteps: negative, zero or positive
CompareSteps(a, b, order) ==
  LET Compare(ai, bi) ==
        IF ai = -1 /\ bi = -1 THEN NameRank(a.name) - NameRank(b.name)
        ELSE IF ai = -1 THEN 1
        ELSE IF bi = -1 THEN -1
        ELSE ai - bi
  IN  Compare(IndexOf(order, a.step_slug), IndexOf(order, b.step_slug))

\* a stable sort: insert one step after the last one that is not greater
RECURSIVE InsertStep(_, _, _)
InsertStep(sorted, step, order) ==
  IF sorted = << >> THEN << step >>
  ELSE IF CompareSteps(sorted[Len(sorted)], step, order) <= 0
  THEN Append(sorted, step)
  ELSE Append(InsertStep(SubSeq(sorted, 1, Len(sorted) - 1), step, order),
              sorted[Len(sorted)])

RECURSIVE SortSteps(_, _, _)
SortSteps(stepMap, order, acc) ==
  IF stepMap = << >> \/ Len(acc) < 0 THEN acc
  ELSE SortSteps(Tail(stepMap), order, InsertStep(acc, Head(stepMap), order))

orderSteps(stepMap, order) == SortSteps(stepMap, order, << >>)

\* the kickoff coupling before projection: both tracks shown, both kickoff
\* steps present, SRA kickoff ACD not blank
CoupleKickoff(sraSteps, nvaSteps, showSra, showNva) ==
  LET Copy(nvaKickoff, sraAcd) ==
        IF sraAcd # << >>
        THEN [nvaSteps EXCEPT ![SlotOf(nvaSteps, nvaKickoff)].ACD = sraAcd]
        ELSE nvaSteps
      OfNames(sraKickoff, nvaKickoff) ==
        IF sraKickoff # NoName /\ nvaKickoff # NoName
        THEN Copy(nvaKickoff, Trim(StepOf(sraSteps, sraKickoff).ACD))
        ELSE nvaSteps
  IN  IF showSra /\ showNva
      THEN OfNames(findStepNameBySlug(sraSteps, "sra_kickoff"),
                   findStepNameBySlug(nvaSteps, "nva_kickoff"))
      ELSE nvaSteps

\* a faulty alignment: the ECD is aligned, the status is left as it was
AlignStep_StaleStatus(step, sraEcd, now, zone) ==
  [step EXCEPT !.ECD = sraEcd,
               !.ecd.value = sraEcd,
               !.ecd.input_value = toInputDate(sraEcd)]

\* the assignments of the alignment to the Present Final NVA step
AlignStep(step, sraEcd, now, zone) ==
  LET Restate(s1, st) == [s1 EXCEPT !.status = st, !.status_class = statusClass(st)]
      Aligned(s1) == Restate(s1, computeStepStatus(s1, now, zone))
  IN  Aligned([step EXCEPT !.ECD = sraEcd,
                           !.ecd.value = sraEcd,
                           !.ecd.input_value = toInputDate(sraEcd)])

\* the alignment after projection: Present Final NVA follows Present Final SRA
AlignPresent(normalizedSra, normalizedNva, now, zone) ==
  LET Align(k, sraEcd) ==
        IF sraEcd = << >> THEN normalizedNva
        ELSE [normalizedNva EXCEPT ![k] = AlignStep(@, sraEcd, now, zone)]
      OfNames(sraPresentName, nvaPresentName) ==
        IF sraPresentName = NoName \/ nvaPresentName = NoName THEN normalizedNva
        ELSE Align(SlotOf(normalizedNva, nvaPresentName),
                   Trim(StepOf(normalizedSra, sraPresentName).ECD))
  IN  OfNames(findStepNameBySlug(normalizedSra, "present_final_sra_report"),
              findStepNameBySlug(normalizedNva, "present_final_nva_report"))

ProjectKey(name) == << "project", name >>

NotAssignedText == << "N", "o", "t", " ", "a", "s", "s", "i", "g", "n", "e", "d" >>

OrElse(t, default) == IF t # << >> THEN t ELSE default

\* the projectDetails object (a blank Project Support is deleted from it)
ProjectDetails(row, location) ==
  [Status         |-> titleCase(row.task_status),
   ProjectLead    |-> OrElse(getMetric(row.metrics, << ProjectKey("project_lead") >>),
                             NotAssignedText),
   Location       |-> OrElse(location, NotSetText),
   ProjectSupport |-> getMetric(row.metrics, << ProjectKey("project_support") >>),
   NextSteps      |-> OrElse(getMetric(row.metrics, << ProjectKey("next_steps") >>),
                             NotSetText)]

\* a faulty build: a track that is not shown is not computed
buildDashboard_SkipsHidden(row, now, zone) ==
  Then(getMetric(row.metrics, << ProjectKey("remote_onsite"), ProjectKey("location") >>),
       LAMBDA location :
  Then(parseBool(getMetric(row.metrics, << ProjectKey("sra_enabled") >>)),
       LAMBDA showSra :
  Then(parseBool(getMetric(row.metrics, << ProjectKey("nva_enabled") >>)),
       LAMBDA showNva :
  Then(IF showSra THEN BucketSteps(row.metrics, "sra", location, row.task_name, << >>)
                  ELSE << >>,
       LAMBDA sraSteps :
  Then(CoupleKickoff(sraSteps,
                     IF showNva
                     THEN BucketSteps(row.metrics, "nva", location, row.task_name, << >>)
                     ELSE << >>,
                     showSra, showNva),
       LAMBDA nvaSteps :
  Then(addEcdAcdFields(sraSteps, sraOffsets, now, zone),
       LAMBDA normalizedSra :
  Then(AlignPresent(normalizedSra,
                    addEcdAcdFields(nvaSteps, nvaOffsets, now, zone), now, zone),
       LAMBDA normalizedNva :
    [project_details |-> ProjectDetails(row, location),
     show_sra        |-> showSra,
     show_nva        |-> showNva,
     sra_steps       |-> orderSteps(normalizedSra, sraOrder),
     nva_steps       |-> orderSteps(normalizedNva, nvaOrder),
     extra_metrics   |-> << >>])))))))

buildDashboard(row, now, zone) ==
  Then(getMetric(row.metrics, << ProjectKey("remote_onsite"), ProjectKey("location") >>),
       LAMBDA location :
  Then(parseBool(getMetric(row.metrics, << ProjectKey("sra_enabled") >>)),
       LAMBDA showSra :
  Then(parseBool(getMetric(row.metrics, << ProjectKey("nva_enabled") >>)),
       LAMBDA showNva :
  Then(BucketSteps(row.metrics, "sra", location, row.task_name, << >>),
       LAMBDA sraSteps :
  Then(CoupleKickoff(sraSteps,
                     BucketSteps(row.metrics, "nva", location, row.task_name, << >>),
                     showSra, showNva),
       LAMBDA nvaSteps :
  Then(addEcdAcdFields(sraSteps, sraOffsets, now, zone),
       LAMBDA normalizedSra :
  Then(AlignPresent(normalizedSra,
                    addEcdAcdFields(nvaSteps, nvaOffsets, now, zone), now, zone),
       LAMBDA normalizedNva :
    [project_details |-> ProjectDetails(row, location),
     show_sra        |-> showSra,
     show_nva        |-> showNva,
     sra_steps       |-> orderSteps(normalizedSra, sraOrder),
     nva_steps       |-> orderSteps(normalizedNva, nvaOrder),
     extra_metrics   |-> << >>])))))))

(***************************************************************************)
(* The state machine.  A row is what fetchListRows hands to the status     *)
(* handler: normalizeTask creates one metrics entry per key of the         *)
(* configured field map, '' while the task has no value for the field.     *)
(* The upstream task then receives values (SetField), and the status       *)
(* handler builds the dashboard of the current row (BuildDashboard).  now  *)
(* and zone are the local date and the time zone of the host.  probe is    *)
(* one call of the status classifier or of a date helper on an argument    *)
(* given to it directly.  store is the override store module: its          *)
(* environment, its cached client, the table behind it and the result of   *)
(* the last call.                                                          *)
(***************************************************************************)
VARIABLES row, now, zone, dashboard, probe, store

vars == << row, now, zone, dashboard, probe, store >>

NoDashboard == [built |-> FALSE]

NoProbe == [made |-> FALSE]

\* the override store module before any call: let cachedClient = null
NoStore == [used |-> FALSE]

\* the texts the metric values of the model are drawn from
T_0106 == << "0", "1", "/", "0", "6", "/", "2", "0", "2", "5" >>

T_0113 == << "0", "1", "/", "1", "3", "/", "2", "0", "2", "5" >>

T_0214 == << "0", "2", "/", "1", "4", "/", "2", "0", "2", "5" >>

T_0303 == << "0", "3", "/", "0", "3", "/", "2", "0", "2", "5" >>

\* ' 03/03/2025 ': a date with blanks around it
T_0303_Padded == << " " >> \o T_0303 \o << " " >>

\* 'TBD': a value that is not a date
T_TBD == << "T", "B", "D" >>

FalseText == << "f", "a", "l", "s", "e" >>

RECURSIVE KeysOf(_, _)
KeysOf(section, slugs) ==
  IF slugs = << >> THEN << >>
  ELSE << << section, Head(slugs), "date" >>, << section, Head(slugs), "ecd" >> >>
         \o KeysOf(section, Tail(slugs))

FlagKeys == << ProjectKey("sra_enabled"), ProjectKey("nva_enabled") >>

\* a field map that covers every canonical step of both tracks
FullMap == FlagKeys \o KeysOf("sra", sraOrder) \o KeysOf("nva", nvaOrder)

\* a field map that knows the two flags and the SRA kickoff date only
KickoffMap == FlagKeys \o << << "sra", "sra_kickoff", "date" >> >>

\* a field map with two steps outside the canonical orders, one of them with
\* an extra field, and three canonical steps listed out of order, one of them
\* (go_onsite_have_interview) without the step its rule takes its date from
CustomMap ==
  FlagKeys \o << << "sra", "custom_step", "ecd" >>,
                 << "sra", "custom_step", "notes" >>,
                 << "sra", "go_onsite_have_interview", "ecd" >>,
                 << "sra", "receive_policies_and_procedures_baa", "ecd" >>,
                 << "sra", "audit_prep", "ecd" >>,
                 << "sra", "sra_kickoff", "date" >> >>

FieldMaps == {FullMap, KickoffMap, CustomMap}

\* the metrics normalizeTask builds for a task without date values
RECURSIVE BlankMetrics(_, _, _)
BlankMetrics(keys, sraFlag, nvaFlag) ==
  IF keys = << >> THEN << >>
  ELSE << [key   |-> Head(keys),
           value |-> IF Head(keys) = ProjectKey("sra_enabled") THEN sraFlag
                     ELSE IF Head(keys) = ProjectKey("nva_enabled") THEN nvaFlag
                     ELSE << >>] >>
         \o BlankMetrics(Tail(keys), sraFlag, nvaFlag)

FlagTexts == {TrueText, FalseText}

\* the values a date field of the task may receive
ValuesFor(key) ==
  IF key = << "sra", "sra_kickoff", "date" >> THEN {T_0106, T_0303_Padded}
  ELSE IF key = << "nva", "nva_kickoff", "date" >> THEN {T_0214}
  ELSE IF key = << "sra", "receive_policies_and_procedures_baa", "date" >>
  THEN {T_0106, T_TBD}
  ELSE IF key = << "sra", "present_final_sra_report", "ecd" >> THEN {T_0214, T_TBD}
  ELSE IF key = << "nva", "verify_access", "date" >> THEN {T_0113}
  ELSE IF key[3] = "notes" THEN {T_TBD}
  ELSE IF key[3] = "ecd" THEN (IF key[1] = "sra" THEN {T_0214} ELSE {T_0303})
  ELSE {T_0106}

\* the number of date fields of a row that may hold a value
MaxDates == 2

DatesSet(metrics) ==
  Cardinality({i \in 1..Len(metrics) :
                 Len(metrics[i].key) >= 3 /\ metrics[i].value # << >>})

\* the local date of the host in the behaviours of Spec: 01/08/2025
Today == DaysFromCivil(2025, 1, 8)

Init ==
  /\ \E fm \in FieldMaps, sraFlag \in FlagTexts, nvaFlag \in FlagTexts :
       row = [task_name |-> "Acme Health", task_status |-> "in progress",
              metrics |-> BlankMetrics(fm, sraFlag, nvaFlag)]
  /\ now = Today
  /\ zone \in TimeZones
  /\ dashboard = NoDashboard
  /\ probe = NoProbe
  /\ store = NoStore

\* the upstream task receives a value in a date field that had none
SetField ==
  /\ DatesSet(row.metrics) < MaxDates
  /\ \E i \in 1..Len(row.metrics) :
       /\ Len(row.metrics[i].key) >= 3
       /\ row.metrics[i].value = << >>
       /\ \E v \in ValuesFor(row.metrics[i].key) :
            row' = [row EXCEPT !.metrics[i].value = v]
  /\ dashboard' = NoDashboard
  /\ UNCHANGED << now, zone, probe, store >>

\* the metrics with the ECD of every step of a built dashboard stored under
\* the key the step was read from
WriteBack(metrics, value) ==
  [i \in 1..Len(metrics) |->
     IF Len(metrics[i].key) >= 3 /\ metrics[i].key[3] = "ecd"
     THEN [metrics[i] EXCEPT !.value =
             StepOf(IF metrics[i].key[1] = "sra" THEN value.sra_steps
                                                ELSE value.nva_steps,
                    findStepNameBySlug(IF metrics[i].key[1] = "sra"
                                       THEN value.sra_steps ELSE value.nva_steps,
                                       metrics[i].key[2])).ECD]
     ELSE metrics[i]]

\* a faulty build: the rules assign to the metrics of the row, not to step
\* records of their own
BuildDashboard_WritesInput ==
  /\ ~dashboard.built
  /\ \E value \in {buildDashboard(row, now, zone)} :
       /\ dashboard' = [built |-> TRUE, value |-> value]
       /\ row' = [row EXCEPT !.metrics = WriteBack(row.metrics, value)]
  /\ UNCHANGED << now, zone, probe, store >>

\* the status handler: dashboard = buildDashboard(row)
BuildDashboard ==
  /\ ~dashboard.built
  /\ dashboard' = [built |-> TRUE, value |-> buildDashboard(row, now, zone)]
  /\ UNCHANGED << row, now, zone, probe, store >>

\* a faulty second call: the step records of the first call are kept and the
\* bucket loop runs on them again
BuildAgain_SharedSteps ==
  /\ dashboard.built
  /\ dashboard' =
       [built  |-> TRUE,
        before |-> dashboard.value,
        value  |-> [dashboard.value EXCEPT
                      !.sra_steps =
                        orderSteps(
                          addEcdAcdFields(
                            BucketSteps(row.metrics, "sra",
                              getMetric(row.metrics, << ProjectKey("remote_onsite"),
                                                        ProjectKey("location") >>),
                              row.task_name, dashboard.value.sra_steps),
                            sraOffsets, now, zone),
                          sraOrder)]]
  /\ UNCHANGED << row, now, zone, probe, store >>

\* the status handler called again for the same row on the same day; before
\* is the dashboard of the call before
BuildAgain ==
  /\ dashboard.built
  /\ dashboard' = [built  |-> TRUE,
                   before |-> dashboard.value,
                   value  |-> buildDashboard(row, now, zone)]
  /\ UNCHANGED << row, now, zone, probe, store >>

Next == SetField \/ BuildDashboard \/ BuildAgain

Spec == Init /\ [][Next]_vars

(***************************************************************************)
(* The status classifier on its own: computeStepStatus applied to a step   *)
(* with any combination of ACD, ECD and kickoff flag, on days around the   *)
(* two changes of the clock of a United States zone and on a winter day.   *)
(***************************************************************************)
\* 01/08/2025, 03/10/2025 (the day after the clocks go forward) and
\* 10/31/2025 (two days before the clocks go back)
StatusTodays ==
  {DaysFromCivil(2025, 1, 8), DaysFromCivil(2025, 3, 10), DaysFromCivil(2025, 10, 31)}

\* the ECDs of a probe, in days from today: yesterday, today, today+3, today+4
ProbeOffsets == {-1, 0, 3, 4}

ProbeEcds(today) ==
  {<< >>, T_TBD} \cup {formatUSDate(DateOf(today + k)) : k \in ProbeOffsets}

InitStatus ==
  /\ row = [task_name |-> "Acme Health", task_status |-> "in progress",
            metrics |-> << >>]
  /\ now \in StatusTodays
  /\ zone \in TimeZones
  /\ dashboard = NoDashboard
  /\ probe = NoProbe
  /\ store = NoStore

Classify ==
  /\ \E acd \in {<< >>, T_0106}, ecd \in ProbeEcds(now), kickoff \in BOOLEAN :
       probe' = [made   |-> TRUE,
                 step   |-> [ACD |-> acd, ECD |-> ecd, isKickoff |-> kickoff],
                 status |-> computeStepStatus(
                              [ACD |-> acd, ECD |-> ecd, isKickoff |-> kickoff],
                              now, zone)]
  /\ UNCHANGED << row, now, zone, dashboard, store >>

NextStatus == Classify

SpecStatus == InitStatus /\ [][NextStatus]_vars

(***************************************************************************)
(* The date helpers on their own: the weekend shift, the write of a        *)
(* forward rule and the two parsers, applied to arguments given to them    *)
(* directly.                                                               *)
(***************************************************************************)
\* the number of consecutive days the helpers are applied to
ProbeSpan == 28

\* Saturday 01/04/2025 and the days after it
ProbeDays == {DaysFromCivil(2025, 1, 4) + k : k \in 0..(ProbeSpan - 1)}

\* the day counts of the forward rules
RuleDays == {7, 12, 14, 15}

T_0230 == << "0", "2", "/", "3", "0", "/", "2", "0", "2", "5" >>
T_1301 == << "1", "3", "/", "0", "1", "/", "2", "0", "2", "5" >>
T_0100 == << "0", "1", "/", "0", "0", "/", "2", "0", "2", "5" >>
T_0229_2024 == << "0", "2", "/", "2", "9", "/", "2", "0", "2", "4" >>
T_0229_2025 == << "0", "2", "/", "2", "9", "/", "2", "0", "2", "5" >>
T_1231 == << "1", "2", "/", "3", "1", "/", "2", "0", "2", "5" >>
T_Short == << "1", "/", "6", "/", "2", "5" >>

\* texts given to the parsers, each with what is written in it: whether it
\* has the form of a date for parseUSDate (strict) and for parseAnyUSDate
\* (any), whether the month and the day it names exist, and the day number of
\* the date if they do
ProbeCases ==
  { [text |-> << >>,        strict |-> FALSE, any |-> FALSE, valid |-> FALSE, day |-> 0],
    [text |-> T_TBD,        strict |-> FALSE, any |-> FALSE, valid |-> FALSE, day |-> 0],
    [text |-> T_0230,       strict |-> TRUE,  any |-> TRUE,  valid |-> FALSE, day |-> 0],
    [text |-> T_1301,       strict |-> TRUE,  any |-> TRUE,  valid |-> FALSE, day |-> 0],
    [text |-> T_0100,       strict |-> TRUE,  any |-> TRUE,  valid |-> FALSE, day |-> 0],
    [text |-> T_0229_2025,  strict |-> TRUE,  any |-> TRUE,  valid |-> FALSE, day |-> 0],
    [text |-> T_0229_2024,  strict |-> TRUE,  any |-> TRUE,  valid |-> TRUE,
     day |-> DaysFromCivil(2024, 2, 29)],
    [text |-> T_1231,       strict |-> TRUE,  any |-> TRUE,  valid |-> TRUE,
     day |-> DaysFromCivil(2025, 12, 31)],
    [text |-> T_0106,       strict |-> TRUE,  any |-> TRUE,  valid |-> TRUE,
     day |-> DaysFromCivil(2025, 1, 6)],
    [text |-> T_0303_Padded, strict |-> TRUE, any |-> TRUE,  valid |-> TRUE,
     day |-> DaysFromCivil(2025, 3, 3)],
    [text |-> T_Short,      strict |-> FALSE, any |-> TRUE,  valid |-> TRUE,
     day |-> DaysFromCivil(2025, 1, 6)] }

\* a step map of one step, with an ECD or without
ProbeSteps(ecd) ==
  << [NewStep("sra", "receive_policies_and_procedures_baa",
              "Receive Policies", "Acme Health") EXCEPT !.ECD = ecd] >>

InitDates ==
  /\ row = [task_name |-> "Acme Health", task_status |-> "in progress",
            metrics |-> << >>]
  /\ now = Today
  /\ zone = "UTC"
  /\ dashboard = NoDashboard
  /\ probe = NoProbe
  /\ store = NoStore

\* shiftToMondayIfWeekend and nextBusinessDay applied to a day
ShiftDate ==
  /\ \E day \in ProbeDays :
       probe' = [made   |-> TRUE,
                 kind   |-> "shift",
                 day    |-> day,
                 monday |-> shiftToMondayIfWeekend(DateOf(day)),
                 next   |-> nextBusinessDay(DateOf(day))]
  /\ UNCHANGED << row, now, zone, dashboard, store >>

\* setEcdFromDateIfBlank applied to a step, with an anchor date and the day
\* count of a rule
ProjectEcd ==
  /\ \E day \in ProbeDays, days \in RuleDays, ecd \in {<< >>, T_TBD} :
       probe' = [made  |-> TRUE,
                 kind  |-> "rule",
                 day   |-> day,
                 days  |-> days,
                 had   |-> ecd,
                 steps |-> setEcdFromDateIfBlank(
                             ProbeSteps(ecd), "receive_policies_and_procedures_baa",
                             DateOf(day), days)]
  /\ UNCHANGED << row, now, zone, dashboard, store >>

\* parseUSDate and parseAnyUSDate applied to a text
ParseText ==
  /\ \E case \in ProbeCases :
       probe' = [made    |-> TRUE,
                 kind    |-> "parse",
                 case    |-> case,
                 strict  |-> parseUSDate(case.text),
                 lenient |-> parseAnyUSDate(case.text)]
  /\ UNCHANGED << row, now, zone, dashboard, store >>

NextDates == ShiftDate \/ ProjectEcd \/ ParseText

SpecDates == InitDates /\ [][NextDates]_vars

(***************************************************************************)
(* The override store.  store.conn is the text of the environment variable *)
(* ECD_OVERRIDES_STORAGE_CONNECTION_STRING ('' when it is unset: the code   *)
(* reads it with || ''), store.cachedClient tells whether the module holds *)
(* a table client, store.table is the set of entities of the table,        *)
(* store.ops the kinds of storage operation issued so far, and             *)
(* store.called / store.result the last call and what it returned.  Each   *)
(* call runs to its end before the next one starts; the updatedAt column   *)
(* of an entity is left out.                                               *)
(***************************************************************************)
NoConn == << >>

BlankConn == << " ", " " >>

ValidConn == << "U", "s", "e", "D", "e", "v" >>

ConnTexts == {NoConn, BlankConn, ValidConn}

\* a faulty test of the configuration: the text is not trimmed
hasStorageConfig_NoTrim(conn) == conn # << >>

hasStorageConfig(conn) == Trim(conn) # << >>

\* the store after getClient(); the call returns a client iff
\* hasStorageConfig(st.conn)
getClient(st) ==
  IF ~hasStorageConfig(st.conn) THEN st
  ELSE IF st.cachedClient THEN st
  ELSE [st EXCEPT !.cachedClient = TRUE,
                  !.ops = @ \cup {"fromConnectionString", "createTable"}]

\* Buffer.from(metricKey).toString('base64url') on the keys of the model
rowKeyForMetric(metricKey) ==
  CASE metricKey = << "k" >> -> "aw"
    [] metricKey = << "m" >> -> "bQ"
    [] OTHER -> ""

\* the entities listEntities returns for the filter PartitionKey eq 'pk'
ListEntities(table, pk) == {e \in table : e.partitionKey = pk}

NullResult == [kind |-> "null"]

MapResult(entries) == [kind |-> "map", entries |-> entries]

BoolResult(b) == [kind |-> IF b THEN "true" ELSE "false"]

ThrowResult == [kind |-> "throws"]

\* the object getOverrides builds from the entities of a partition
OverridesOf(entities) ==
  {[key |-> Trim(e.metricKey), value |-> e.value] :
     e \in {x \in entities : Trim(x.metricKey) # << >>}}

getOverrides(st0, sfId) ==
  Then(getClient(st0), LAMBDA st :
    IF ~hasStorageConfig(st.conn)
    THEN [st EXCEPT !.called = "getOverrides", !.result = NullResult]
    ELSE IF Trim(sfId) = << >>
    THEN [st EXCEPT !.called = "getOverrides", !.result = MapResult({})]
    ELSE [st EXCEPT !.called = "getOverrides",
                    !.ops = @ \cup {"listEntities"},
                    !.result = MapResult(OverridesOf(ListEntities(st.table, Trim(sfId))))])

\* the create loop of replaceOverrides over Object.entries(src); createEntity
\* rejects when the table holds an entity with the same keys
RECURSIVE CreateEntries(_, _, _)
CreateEntries(table, pk, entries) ==
  IF entries = << >> \/ Len(entries) < 0 THEN [table |-> table, threw |-> FALSE]
  ELSE IF Trim(Head(entries).key) = << >> THEN CreateEntries(table, pk, Tail(entries))
  ELSE IF Head(entries).value.isNull \/ Trim(Head(entries).value.text) = << >>
  THEN CreateEntries(table, pk, Tail(entries))
  ELSE IF \E e \in table : /\ e.partitionKey = pk
                           /\ e.rowKey = rowKeyForMetric(Trim(Head(entries).key))
  THEN [table |-> table, threw |-> TRUE]
  ELSE CreateEntries(table \cup {[partitionKey |-> pk,
                                  rowKey       |-> rowKeyForMetric(Trim(Head(entries).key)),
                                  metricKey    |-> Trim(Head(entries).key),
                                  value        |-> Trim(Head(entries).value.text)]},
                     pk, Tail(entries))

\* the creates that reach the table: those of the entries with a key and a value
Creates(entries) ==
  IF \E i \in 1..Len(entries) :
       /\ Trim(entries[i].key) # << >>
       /\ ~entries[i].value.isNull
       /\ Trim(entries[i].value.text) # << >>
  THEN {"createEntity"} ELSE {}

replaceOverrides(st0, sfId, overridesMap) ==
  Then(getClient(st0), LAMBDA st :
    IF ~hasStorageConfig(st.conn) \/ Trim(sfId) = << >>
    THEN [st EXCEPT !.called = "replaceOverrides", !.result = BoolResult(FALSE)]
    ELSE Then(CreateEntries(st.table \ ListEntities(st.table, Trim(sfId)),
                            Trim(sfId), overridesMap),
              LAMBDA made :
           [st EXCEPT !.called = "replaceOverrides",
                      !.ops = @ \cup {"listEntities"}
                                \cup (IF ListEntities(st.table, Trim(sfId)) # {}
                                      THEN {"deleteEntity"} ELSE {})
                                \cup Creates(overridesMap),
                      !.table = made.table,
                      !.result = IF made.threw THEN ThrowResult ELSE BoolResult(TRUE)]))

\* the ids the callers pass: none, blank, and two tasks
SfIds == {<< >>, << " " >>, << "a" >>, << "b" >>}

MetricKeys == {<< "k" >>, << "m" >>, << " ", "k" >>, << " " >>}

RawValues ==
  {[isNull |-> TRUE, text |-> << >>], [isNull |-> FALSE, text |-> << >>],
   [isNull |-> FALSE, text |-> << "v" >>], [isNull |-> FALSE, text |-> << "w", " " >>]}

\* the largest number of entries of an overrides map
MaxEntries == 2

\* the overrides maps: the entries of an object, in insertion order, no key twice
OverrideMaps ==
  {m \in UNION {[1..n -> [key : MetricKeys, value : RawValues]] : n \in 0..MaxEntries} :
     \A i, j \in 1..Len(m) : i # j => m[i].key # m[j].key}

InitOverrides ==
  /\ row = [task_name |-> "Acme Health", task_status |-> "in progress",
            metrics |-> << >>]
  /\ now = Today
  /\ zone = "UTC"
  /\ dashboard = NoDashboard
  /\ probe = NoProbe
  /\ \E conn \in ConnTexts :
       store = [used |-> TRUE, conn |-> conn, cachedClient |-> FALSE, table |-> {},
                ops |-> {}, called |-> "", result |-> NullResult]

GetOverrides ==
  /\ \E sfId \in SfIds : store' = getOverrides(store, sfId)
  /\ UNCHANGED << row, now, zone, dashboard, probe >>

ReplaceOverrides ==
  /\ \E sfId \in SfIds, overridesMap \in OverrideMaps :
       store' = replaceOverrides(store, sfId, overridesMap)
  /\ UNCHANGED << row, now, zone, dashboard, probe >>

NextOverrides == GetOverrides \/ ReplaceOverrides

SpecOverrides == InitOverrides /\ [][NextOverrides]_vars

(***************************************************************************)
(* The choice of one task per sf_id.  A row is a normalized task with its  *)
(* sf_id, its status type and the text of its last update (a date          *)
(* MM/DD/YYYY, or '' when the task has none).  The Map of pickBestBySf is   *)
(* a sequence of rows in the order the sf_ids were first set.              *)
(***************************************************************************)
\* Date.parse(text || '') || 0 in hours: 0 for a text that is no date
UpdatedTime(text, z) ==
  IF parseUSDate(text).isNull THEN 0 ELSE GetTimeHours(parseUSDate(text).day, z)

\* the position of the row of an sf_id in the Map; 0 when there is none
RECURSIVE SlotOfSf(_, _, _)
SlotOfSf(bySf, sfId, i) ==
  IF i > Len(bySf) THEN 0
  ELSE IF bySf[i].sf_id = sfId THEN i
  ELSE SlotOfSf(bySf, sfId, i + 1)

\* one iteration of the loop of pickBestBySf, cur being at position k
PickOne(bySf, taskRow, k, z) ==
  IF k = 0 THEN Append(bySf, taskRow)
  ELSE IF bySf[k].task_status_type = "closed" /\ taskRow.task_status_type # "closed"
  THEN [bySf EXCEPT ![k] = taskRow]
  ELSE IF UpdatedTime(taskRow.source_updated_at, z)
            >= UpdatedTime(bySf[k].source_updated_at, z)
  THEN [bySf EXCEPT ![k] = taskRow]
  ELSE bySf

RECURSIVE PickFrom(_, _, _)
PickFrom(rows, bySf, z) ==
  IF rows = << >> \/ Len(bySf) < 0 THEN bySf
  ELSE PickFrom(Tail(rows),
                PickOne(bySf, Head(rows), SlotOfSf(bySf, Head(rows).sf_id, 1), z), z)

pickBestBySf(rows, z) == PickFrom(rows, << >>, z)

\* the largest number of tasks of a list
MaxRows == 3

\* the tasks a list may hold
TaskRows ==
  [sf_id : {"a", "b"}, task_status_type : {"closed", "open"},
   source_updated_at : {<< >>, T_0106, T_0113}]

\* the list before any task is fetched
NoTasks == [made |-> FALSE, kind |-> "tasks", rows |-> << >>]

InitPick ==
  /\ row = [task_name |-> "Acme Health", task_status |-> "in progress",
            metrics |-> << >>]
  /\ now = Today
  /\ zone \in TimeZones
  /\ dashboard = NoDashboard
  /\ probe = NoTasks
  /\ store = NoStore

\* fetchListRows: one more task of the list is fetched and normalized
ReceiveTask ==
  /\ probe.kind = "tasks"
  /\ Len(probe.rows) < MaxRows
  /\ \E taskRow \in TaskRows :
       probe' = [made |-> TRUE, kind |-> "tasks", rows |-> Append(probe.rows, taskRow)]
  /\ UNCHANGED << row, now, zone, dashboard, store >>

\* fetchListRows: return pickBestBySf(all)
PickBest ==
  /\ probe.kind = "tasks"
  /\ probe' = [made |-> TRUE, kind |-> "pick", rows |-> probe.rows,
               best |-> pickBestBySf(probe.rows, zone)]
  /\ UNCHANGED << row, now, zone, dashboard, store >>

NextPick == ReceiveTask \/ PickBest

SpecPick == InitPick /\ [][NextPick]_vars

(***************************************************************************)
(* replaceOverrides call by call.  A call gives up control at each await:  *)
(* the listing, each deleteEntity, each createEntity.  One step of a call  *)
(* is one storage operation together with the statements that follow it   *)
(* up to the next await or the return.  store.calls holds the two calls a  *)
(* behaviour may make; alone tells that a call ran from its start to its   *)
(* end while the other one was not running; store.last is the call that    *)
(* returned last, store.got the getOverrides call made since then.         *)
(***************************************************************************)
IdleCall ==
  [pc |-> "idle", sfId |-> << >>, map |-> << >>, existing |-> {}, todo |-> << >>,
   result |-> NullResult, alone |-> TRUE]

NoGet == [made |-> FALSE, sfId |-> << >>]

\* a faulty test of an entry: an empty value is persisted
Persists_EmptyValue(entry) ==
  /\ Trim(entry.key) # << >>
  /\ ~entry.value.isNull

\* the tests of the create loop: an entry is persisted when its trimmed key
\* is not empty and its value is neither null nor empty after trimming
Persists(entry) ==
  /\ Trim(entry.key) # << >>
  /\ ~entry.value.isNull
  /\ Trim(entry.value.text) # << >>

\* the entries the create loop has still to look at, without the ones it
\* skips before its next createEntity
RECURSIVE SkipEntries(_)
SkipEntries(todo) ==
  IF todo = << >> THEN << >>
  ELSE IF Persists(Head(todo)) THEN todo
  ELSE SkipEntries(Tail(todo))

\* the call after its last deleteEntity (or after a listing of nothing): at
\* its first createEntity, or returned true when nothing is to be created
ToCreates(call) ==
  IF SkipEntries(call.map) = << >>
  THEN [call EXCEPT !.pc = "done", !.existing = {}, !.todo = << >>,
                    !.result = BoolResult(TRUE)]
  ELSE [call EXCEPT !.pc = "create", !.existing = {}, !.todo = SkipEntries(call.map)]

\* the entity createEntity is given for an entry
EntityOf(pk, entry) ==
  [partitionKey |-> pk,
   rowKey       |-> rowKeyForMetric(Trim(entry.key)),
   metricKey    |-> Trim(entry.key),
   value        |-> Trim(entry.value.text)]

\* the order in which a listing returns the row keys of the model
RowOrder(rowKey) == IF rowKey = "aw" THEN 1 ELSE 2

\* the first entity of a listing
FirstOf(entities) ==
  CHOOSE e \in entities : \A f \in entities : RowOrder(e.rowKey) <= RowOrder(f.rowKey)

\* is the call between its start and its return
Running(call) == call.pc \notin {"idle", "done"}

\* the maps the two calls are given
ReplaceMaps ==
  { << >>,
    << [key |-> << "k" >>, value |-> [isNull |-> FALSE, text |-> << "v" >>]] >>,
    << [key |-> << "k" >>, value |-> [isNull |-> FALSE, text |-> << "w", " " >>]],
       [key |-> << "m" >>, value |-> [isNull |-> FALSE, text |-> << "v" >>]] >>,
    << [key |-> << " ", "k" >>, value |-> [isNull |-> FALSE, text |-> << "v" >>]],
       [key |-> << "m" >>, value |-> [isNull |-> TRUE, text |-> << >>]] >>,
    << [key |-> << " " >>, value |-> [isNull |-> FALSE, text |-> << "v" >>]],
       [key |-> << "m" >>, value |-> [isNull |-> FALSE, text |-> << >>]] >>,
    << [key |-> << "k" >>, value |-> [isNull |-> FALSE, text |-> << "v" >>]],
       [key |-> << " ", "k" >>, value |-> [isNull |-> FALSE, text |-> << "w", " " >>]] >> }

\* the tables a behaviour may start from: empty, or with overrides of a and b
StartTables ==
  { {},
    { [partitionKey |-> << "a" >>, rowKey |-> "aw", metricKey |-> << "k" >>,
       value |-> << "w" >>],
      [partitionKey |-> << "a" >>, rowKey |-> "bQ", metricKey |-> << "m" >>,
       value |-> << "v" >>],
      [partitionKey |-> << "b" >>, rowKey |-> "aw", metricKey |-> << "k" >>,
       value |-> << "v" >>] } }

InitReplace ==
  /\ row = [task_name |-> "Acme Health", task_status |-> "in progress",
            metrics |-> << >>]
  /\ now = Today
  /\ zone = "UTC"
  /\ dashboard = NoDashboard
  /\ probe = NoProbe
  /\ \E conn \in ConnTexts, table \in StartTables :
       store = [used |-> TRUE, conn |-> conn, cachedClient |-> FALSE, table |-> table,
                ops |-> {}, called |-> "", result |-> NullResult,
                calls |-> << IdleCall, IdleCall >>, last |-> 0, got |-> NoGet]

\* the other call of a behaviour
OtherCall(c) == 3 - c

\* the calls when call c has become next; a call that returns is the last one
WithCall(st, c, next) ==
  [st EXCEPT !.calls[c] = next,
             !.last = IF next.pc = "done" THEN c ELSE @,
             !.got = NoGet]

\* replaceOverrides up to its listing: getClient, the test of the client and
\* the test of the partition key; a running call is no longer alone
BeginReplace(st0, c, sfId, overridesMap) ==
  Then(getClient(st0), LAMBDA st :
    IF ~hasStorageConfig(st.conn) \/ Trim(sfId) = << >>
    THEN WithCall(st, c, [IdleCall EXCEPT !.pc = "done", !.sfId = sfId,
                                          !.map = overridesMap,
                                          !.result = BoolResult(FALSE),
                                          !.alone = ~Running(st.calls[OtherCall(c)])])
    ELSE WithCall([st EXCEPT !.calls[OtherCall(c)].alone =
                               @ /\ ~Running(st.calls[OtherCall(c)])],
                  c, [IdleCall EXCEPT !.pc = "list", !.sfId = sfId,
                                      !.map = overridesMap,
                                      !.alone = ~Running(st.calls[OtherCall(c)])]))

StartReplace(c) ==
  /\ store.calls[c].pc = "idle"
  /\ \E sfId \in SfIds, overridesMap \in ReplaceMaps :
       store' = BeginReplace(store, c, sfId, overridesMap)
  /\ UNCHANGED << row, now, zone, dashboard, probe >>

\* for await (const entity of client.listEntities(...)) existing.push(entity)
ListStep(c) ==
  /\ store.calls[c].pc = "list"
  /\ \E existing \in {ListEntities(store.table, Trim(store.calls[c].sfId))} :
       store' = WithCall([store EXCEPT !.ops = @ \cup {"listEntities"}], c,
                         IF existing = {}
                         THEN ToCreates(store.calls[c])
                         ELSE [store.calls[c] EXCEPT !.pc = "delete",
                                                     !.existing = existing])
  /\ UNCHANGED << row, now, zone, dashboard, probe >>

\* await client.deleteEntity(entity.partitionKey, entity.rowKey).catch(() => {})
\* removes the entity that has these keys now, whoever created it
DeleteStep(c) ==
  /\ store.calls[c].pc = "delete"
  /\ \E entity \in {FirstOf(store.calls[c].existing)} :
       store' = WithCall([store EXCEPT
                            !.ops = @ \cup {"deleteEntity"},
                            !.table = {e \in @ : ~(e.partitionKey = entity.partitionKey
                                                  /\ e.rowKey = entity.rowKey)}],
                         c,
                         IF store.calls[c].existing = {entity}
                         THEN ToCreates(store.calls[c])
                         ELSE [store.calls[c] EXCEPT !.existing = @ \ {entity}])
  /\ UNCHANGED << row, now, zone, dashboard, probe >>

\* the call after a createEntity that was accepted
Created(call) ==
  IF SkipEntries(Tail(call.todo)) = << >>
  THEN [call EXCEPT !.pc = "done", !.todo = << >>, !.result = BoolResult(TRUE)]
  ELSE [call EXCEPT !.todo = SkipEntries(Tail(call.todo))]

\* await client.createEntity({...}): rejected when the table holds an entity
\* with the same keys, and then the call throws
CreateStep(c) ==
  /\ store.calls[c].pc = "create"
  /\ \E entity \in {EntityOf(Trim(store.calls[c].sfId), Head(store.calls[c].todo))} :
       store' =
         IF \E e \in store.table : e.partitionKey = entity.partitionKey
                                   /\ e.rowKey = entity.rowKey
         THEN WithCall([store EXCEPT !.ops = @ \cup {"createEntity"}], c,
                       [store.calls[c] EXCEPT !.pc = "done", !.result = ThrowResult])
         ELSE WithCall([store EXCEPT !.ops = @ \cup {"createEntity"},
                                     !.table = @ \cup {entity}],
                       c, Created(store.calls[c]))
  /\ UNCHANGED << row, now, zone, dashboard, probe >>

\* getOverrides called while no replaceOverrides call is running
GetAfter ==
  /\ ~Running(store.calls[1]) /\ ~Running(store.calls[2])
  /\ ~store.got.made
  /\ \E sfId \in SfIds :
       store' = [getOverrides(store, sfId) EXCEPT !.got = [made |-> TRUE, sfId |-> sfId]]
  /\ UNCHANGED << row, now, zone, dashboard, probe >>

NextReplace ==
  \/ \E c \in 1..2 : StartReplace(c)
  \/ \E c \in 1..2 : ListStep(c)
  \/ \E c \in 1..2 : DeleteStep(c)
  \/ \E c \in 1..2 : CreateStep(c)
  \/ GetAfter

SpecReplace == InitReplace /\ [][NextReplace]_vars

(***************************************************************************)
(* The update handler.  The environment holds ADMIN_ALLOWED_HOSTS (the set *)
(* of its hosts), ADMIN_API_KEY, whether CLIENT_LINK_SECRET is set, and    *)
(* CLICKUP_FIELD_MAP_JSON.  A request holds the host header, the key of    *)
(* the query, the x-api-key header and the body.  probe holds the call:    *)
(* its position, the calls it has issued upstream in log, its response.    *)
(* A handler step runs from one await to the next.                         *)
(***************************************************************************)
\* the texts of CLICKUP_FIELD_MAP_JSON of the model
FieldMapJsons == {"", "{\"k\":\"f1\"}", "{\"k\":\"\"}", "not json"}

\* parseFieldMap: the own properties of the parsed object; {} for an unset
\* variable and for a text that is not JSON
parseFieldMap(raw) ==
  CASE raw = "{\"k\":\"f1\"}" -> {[key |-> << "k" >>, id |-> << "f", "1" >>]}
    [] raw = "{\"k\":\"\"}"   -> {[key |-> << "k" >>, id |-> << >>]}
    [] OTHER                  -> {}

\* the property names every object inherits from Object.prototype; the name
\* is one element of the text
InheritedNames == {<< "constructor" >>}

\* fieldMap[metricKey]: the own property, else the inherited one, else
\* undefined; truthy tells what !fieldId tests
FieldOf(fieldMap, metricKey) ==
  IF \E p \in fieldMap : p.key = metricKey
  THEN [truthy |-> (CHOOSE p \in fieldMap : p.key = metricKey).id # << >>,
        id |-> (CHOOSE p \in fieldMap : p.key = metricKey).id]
  ELSE IF metricKey \in InheritedNames
  THEN [truthy |-> TRUE, id |-> << "function" >>]
  ELSE [truthy |-> FALSE, id |-> << >>]

\* host.startsWith(`${h}:`)
StartsWithPort(host, h) ==
  /\ Len(host) > Len(h)
  /\ SubSeq(host, 1, Len(h)) = h
  /\ host[Len(h) + 1] = ":"

\* hostAllowedForAdmin: every host when ADMIN_ALLOWED_HOSTS is blank, else a
\* non-blank host that is an allowed host, with or without a port
hostAllowedForAdmin(env, req) ==
  IF env.allowedHosts = {} THEN TRUE
  ELSE IF Trim(req.host) = << >> THEN FALSE
  ELSE \E h \in env.allowedHosts : Trim(req.host) = h \/ StartsWithPort(Trim(req.host), h)

\* String(req.query.key || readHeader(req.headers, 'x-api-key') || '').trim()
ProvidedKey(req) == IF req.queryKey # << >> THEN Trim(req.queryKey) ELSE Trim(req.headerKey)

isAdmin(env, req) ==
  IF ~hostAllowedForAdmin(env, req) THEN FALSE
  ELSE IF Trim(env.adminKey) = << >> THEN TRUE
  ELSE ProvidedKey(req) = Trim(env.adminKey)

\* sign(sfId): the hex digest of the HMAC of sfId, a text that differs for
\* the sf_ids of the model
sign(sfId) == << "#" >> \o sfId

\* json(status, body)
json(status, error) == [made |-> TRUE, status |-> status, error |-> error]

NoResponse == [made |-> FALSE, status |-> 0, error |-> ""]

Envs ==
  [allowedHosts : {{}, {<< "h" >>}},
   adminKey     : {<< >>, << "s" >>},
   hasSecret    : BOOLEAN,
   fieldMapJson : FieldMapJsons]

Requests ==
  [host       : {<< >>, << "h" >>, << "h", ":", "4" >>, << "x" >>},
   queryKey   : {<< >>, << "s" >>, << "t" >>},
   headerKey  : {<< >>, << "s" >>},
   sf_id      : {<< >>, << "a" >>, << " ", "a" >>, << "b" >>},
   metric_key : {<< >>, << "k" >>, << "m" >>, << "constructor" >>},
   value      : {<< >>, T_0106},
   sig        : {<< >>, << "#", "a" >>, << "#", "a", " " >>, << "#", "b" >>}]

\* the rows fetchListRows may return
RowLists ==
  { << >>,
    << [sf_id |-> << "a" >>, task_id |-> "t1"] >>,
    << [sf_id |-> << "b" >>, task_id |-> "t2"], [sf_id |-> << "a" >>, task_id |-> "t1"] >> }

NoUpdate(env) ==
  [made |-> FALSE, kind |-> "update", pc |-> "idle", env |-> env,
   req |-> [host |-> << >>, queryKey |-> << >>, headerKey |-> << >>, sf_id |-> << >>,
            metric_key |-> << >>, value |-> << >>, sig |-> << >>],
   rows |-> << >>, log |-> << >>, res |-> NoResponse]

InitUpdate ==
  /\ row = [task_name |-> "Acme Health", task_status |-> "in progress",
            metrics |-> << >>]
  /\ now = Today
  /\ zone = "UTC"
  /\ dashboard = NoDashboard
  /\ \E env \in Envs : probe = NoUpdate(env)
  /\ store = NoStore

\* the handler ends with the response res
Responds(u, res) == [u EXCEPT !.pc = "done", !.res = res]

\* the handler up to await fetchListRows(): the admin test, the fields of the
\* body, the test of the payload (sign throws when CLIENT_LINK_SECRET is not
\* set, and it is called only when the three fields are not empty)
UpdateStart(u0, req) ==
  Then([u0 EXCEPT !.made = TRUE, !.req = req], LAMBDA u :
    IF ~isAdmin(u.env, req) THEN Responds(u, json(401, "unauthorized"))
    ELSE IF Trim(req.sf_id) = << >> \/ Trim(req.metric_key) = << >>
            \/ Trim(req.sig) = << >>
    THEN Responds(u, json(400, "invalid_payload"))
    ELSE IF ~u.env.hasSecret THEN Responds(u, json(500, "server_error"))
    ELSE IF Trim(req.sig) # sign(Trim(req.sf_id))
    THEN Responds(u, json(400, "invalid_payload"))
    ELSE [u EXCEPT !.pc = "fetching", !.log = Append(@, [call |-> "fetchListRows"])])

\* rows.find((r) => r.sf_id === sfId): the position of the row, 0 for none
RECURSIVE FindRow(_, _, _)
FindRow(rows, sfId, i) ==
  IF i > Len(rows) THEN 0
  ELSE IF rows[i].sf_id = sfId THEN i
  ELSE FindRow(rows, sfId, i + 1)

\* value ? String(new Date(value).getTime()) : null
ClickupValue(value, z) ==
  IF value = << >> THEN [isNull |-> TRUE, time |-> 0]
  ELSE [isNull |-> FALSE, time |-> UpdatedTime(value, z)]

\* the handler from the rows of fetchListRows to await updateCustomField(...)
UpdateFetched(u, rows, k, field, z) ==
  IF k = 0 THEN Responds([u EXCEPT !.rows = rows], json(404, "status_not_found"))
  ELSE IF ~field.truthy
  THEN Responds([u EXCEPT !.rows = rows], json(400, "field_not_mapped"))
  ELSE [u EXCEPT !.rows = rows, !.pc = "writing",
                 !.log = Append(@, [call |-> "updateCustomField",
                                    taskId |-> rows[k].task_id,
                                    fieldId |-> field.id,
                                    value |-> ClickupValue(Trim(u.req.value), z)])]

\* a POST /update request arrives
Update ==
  /\ probe.kind = "update" /\ probe.pc = "idle"
  /\ \E req \in Requests : probe' = UpdateStart(probe, req)
  /\ UNCHANGED << row, now, zone, dashboard, store >>

\* fetchListRows returns
RowsFetched ==
  /\ probe.kind = "update" /\ probe.pc = "fetching"
  /\ \E rows \in RowLists :
       probe' = UpdateFetched(probe, rows, FindRow(rows, Trim(probe.req.sf_id), 1),
                              FieldOf(parseFieldMap(probe.env.fieldMapJson),
                                      Trim(probe.req.metric_key)), zone)
  /\ UNCHANGED << row, now, zone, dashboard, store >>

\* updateCustomField returns
FieldUpdated ==
  /\ probe.kind = "update" /\ probe.pc = "writing"
  /\ probe' = Responds(probe, [made |-> TRUE, status |-> 200, error |-> ""])
  /\ UNCHANGED << row, now, zone, dashboard, store >>

\* an upstream call is rejected: the handler catches the error
UpstreamFails ==
  /\ probe.kind = "update" /\ probe.pc \in {"fetching", "writing"}
  /\ probe' = Responds(probe, json(500, "server_error"))
  /\ UNCHANGED << row, now, zone, dashboard, store >>

NextUpdate == Update \/ RowsFetched \/ FieldUpdated \/ UpstreamFails

SpecUpdate == InitUpdate /\ [][NextUpdate]_vars

(***************************************************************************)
(* Properties.  The input of a build is row, its output dashboard.value.   *)
(***************************************************************************)
Sections == {"sra", "nva"}

\* the ordered steps of a track in the built dashboard
StepsOf(section) ==
  IF section = "sra" THEN dashboard.value.sra_steps ELSE dashboard.value.nva_steps

HasStep(section, slug) ==
  \E i \in 1..Len(StepsOf(section)) : StepsOf(section)[i].step_slug = slug

OutStep(section, slug) ==
  StepsOf(section)[CHOOSE i \in 1..Len(StepsOf(section)) :
                     StepsOf(section)[i].step_slug = slug]

\* the ACD and the ECD of a step in the input, as the bucket loop reads them
InputACD(section, slug) == Trim(MetricValue(row.metrics, << section, slug, "date" >>))

InputECD(section, slug) == Trim(MetricValue(row.metrics, << section, slug, "ecd" >>))

\* the text holds a date
Parses(text) == ~parseAnyUSDate(text).isNull

\* the step is absent, or neither its ACD nor its ECD holds a date
Dateless(section, slug) ==
  HasStep(section, slug) =>
    ~Parses(OutStep(section, slug).ACD) /\ ~Parses(OutStep(section, slug).ECD)

\* the statements that assign an ECD without looking at the one the step has
EcdOverwritten(section, slug) ==
  \/ IncludesKickoff(slug)
  \/ slug = "go_onsite_have_interview" /\ Parses(OutStep(section, slug).ACD)
  \/ /\ slug \in {"compile_report", "access_removed", "present_final_nva_report"}
     /\ HasStep(section, "present_final_nva_report")
     /\ Parses(OutStep(section, "present_final_nva_report").ACD)
  \/ /\ section = "nva" /\ slug = "present_final_nva_report"
     /\ HasStep("sra", "present_final_sra_report")
     /\ OutStep("sra", "present_final_sra_report").ECD # << >>

C2_AcdNeverReplaced ==
  dashboard.built =>
    \A section \in Sections : \A i \in 1..Len(StepsOf(section)) :
      LET slug == StepsOf(section)[i].step_slug
      IN  InputACD(section, slug) # << >>
            => StepsOf(section)[i].ACD = InputACD(section, slug)

\* C3: the kickoff step of each track has ECD = ACD and ecd.editable false,
\* whatever ECD the input had; every other step has ecd.editable true
C3_KickoffEcdIsAcd ==
  dashboard.built =>
    \A section \in Sections : \A i \in 1..Len(StepsOf(section)) :
      LET step == StepsOf(section)[i]
      IN  IF IncludesKickoff(step.step_slug)
          THEN step.ECD = step.ACD /\ step.ecd.editable = FALSE
          ELSE step.ecd.editable = TRUE

\* a build of a row whose SRA kickoff had an ECD other than its ACD
C3_Witness ==
  /\ dashboard.built
  /\ HasStep("sra", "sra_kickoff")
  /\ InputECD("sra", "sra_kickoff") = T_0214
  /\ InputACD("sra", "sra_kickoff") = T_0106
  /\ OutStep("sra", "sra_kickoff").ECD = T_0106
  /\ HasStep("nva", "nva_kickoff")
  /\ OutStep("nva", "nva_kickoff").ECD = OutStep("nva", "nva_kickoff").ACD

\* whole days from today to the ECD as the code computes them
DiffDays(ecd, today, tz) ==
  Ceil(GetTimeHours(parseUSDate(ecd).day, tz) - GetTimeHours(today, tz), 24)

\* C4: the priority order of computeStepStatus: with an ACD the status is
\* 'Completed' for a kickoff step and 'On Track' for any other, whatever the
\* ECD; a kickoff step without ACD is 'Not Started' whatever the ECD; a
\* non-kickoff step with neither ACD nor ECD is 'Not Started'; only a
\* non-kickoff step with an ECD and no ACD is classified by its ECD and today
C4_StatusPriority ==
  probe.made =>
    LET step == probe.step
    IN  /\ (step.ACD # << >> /\ step.isKickoff) => probe.status = "Completed"
        /\ (step.ACD # << >> /\ ~step.isKickoff) => probe.status = "On Track"
        /\ (step.ACD = << >> /\ step.isKickoff) => probe.status = "Not Started"
        /\ (step.ACD = << >> /\ ~step.isKickoff /\ step.ECD = << >>)
             => probe.status = "Not Started"
        /\ (step.ACD = << >> /\ ~step.isKickoff /\ ~parseUSDate(step.ECD).isNull)
             => probe.status =
                  IF DiffDays(step.ECD, now, zone) < 0 THEN "Roadblock/Overage"
                  ELSE IF DiffDays(step.ECD, now, zone) <= 3 THEN "Potential Roadblock"
                  ELSE "On Track"

\* a non-kickoff step with an ACD and an ECD in the past, classified 'On Track'
C4_Witness ==
  /\ probe.made
  /\ ~probe.step.isKickoff
  /\ probe.step.ACD = T_0106
  /\ ~parseUSDate(probe.step.ECD).isNull
  /\ parseUSDate(probe.step.ECD).day < now
  /\ probe.status = "On Track"

\* C5: for a non-kickoff step with no ACD and an ECD that parses, with
\* diffDays the number of calendar days from today to the ECD: diffDays < 0
\* gives 'Roadblock/Overage', 0 <= diffDays <= 3 gives 'Potential Roadblock',
\* diffDays > 3 gives 'On Track'
C5_CalendarDayBoundaries ==
  (probe.made /\ ~probe.step.isKickoff /\ probe.step.ACD = << >>
     /\ ~parseUSDate(probe.step.ECD).isNull)
    => probe.status =
         IF parseUSDate(probe.step.ECD).day - now < 0 THEN "Roadblock/Overage"
         ELSE IF parseUSDate(probe.step.ECD).day - now <= 3 THEN "Potential Roadblock"
         ELSE "On Track"

\* C6: the row with sra.sra_kickoff.date = 01/06/2025, sra_enabled true and
\* nva_enabled false, built on 01/08/2025: sra_kickoff is 'Completed',
\* receive_policies_and_procedures_baa is present with ECD 01/13/2025 and
\* status 'On Track', show_nva is false
C6_KickoffOnlyScenario ==
  (/\ dashboard.built
   /\ now = Today
   /\ Len(row.metrics) = Len(KickoffMap)
   /\ MetricValue(row.metrics, << "sra", "sra_kickoff", "date" >>) = T_0106
   /\ MetricValue(row.metrics, ProjectKey("sra_enabled")) = TrueText
   /\ MetricValue(row.metrics, ProjectKey("nva_enabled")) = FalseText)
    => /\ dashboard.value.show_nva = FALSE
       /\ HasStep("sra", "sra_kickoff")
       /\ OutStep("sra", "sra_kickoff").status = "Completed"
       /\ HasStep("sra", "receive_policies_and_procedures_baa")
       /\ OutStep("sra", "receive_policies_and_procedures_baa").ECD = T_0113
       /\ OutStep("sra", "receive_policies_and_procedures_baa").status = "On Track"

\* the forward rules 'set the step of slug from the step of anchor with an
\* offset of days' that addEcdAcdFields applies through setEcdIfBlank
ForwardRules ==
  { [section |-> "sra", slug |-> "receive_policies_and_procedures_baa",
     anchor |-> "sra_kickoff", days |-> 7],
    [section |-> "sra", slug |-> "review_policies_and_procedures_baa",
     anchor |-> "receive_policies_and_procedures_baa", days |-> 12],
    [section |-> "sra", slug |-> "schedule_onsite_remote_interview",
     anchor |-> "sra_kickoff", days |-> 14],
    [section |-> "sra", slug |-> "go_onsite_have_interview",
     anchor |-> "review_policies_and_procedures_baa", days |-> 7],
    [section |-> "sra", slug |-> "recieve_requested_follow_up_documentation",
     anchor |-> "go_onsite_have_interview", days |-> 14],
    [section |-> "sra", slug |-> "schedule_final_sra_report",
     anchor |-> "go_onsite_have_interview", days |-> 14],
    [section |-> "nva", slug |-> "receive_credentials",
     anchor |-> "nva_kickoff", days |-> 7],
    [section |-> "nva", slug |-> "verify_access",
     anchor |-> "receive_credentials", days |-> 7] }

\* the rule of go_onsite_have_interview applies while its own ACD has no date
RuleApplies(r) ==
  /\ HasStep(r.section, r.slug)
  /\ HasStep(r.section, r.anchor)
  /\ InputECD(r.section, r.slug) = << >>
  /\ r.slug = "go_onsite_have_interview" => ~Parses(OutStep(r.section, r.slug).ACD)

\* the ACD of the anchor step if it parses, else its ECD
AnchorOf(r) ==
  IF Parses(OutStep(r.section, r.anchor).ACD)
  THEN parseAnyUSDate(OutStep(r.section, r.anchor).ACD)
  ELSE parseAnyUSDate(OutStep(r.section, r.anchor).ECD)

\* C7: a forward rule applied to a step that is present with a blank ECD takes
\* the ACD of the anchor if it parses, else its ECD, and sets the ECD of the
\* step to shiftToMondayIfWeekend(anchor + days); for a kickoff ACD of
\* 01/06/2025 the ECD of receive_policies_and_procedures_baa is 01/13/2025
C7_ForwardRule ==
  dashboard.built =>
    /\ \A r \in ForwardRules :
         (RuleApplies(r) /\ ~AnchorOf(r).isNull)
           => OutStep(r.section, r.slug).ECD =
                formatUSDate(shiftToMondayIfWeekend(addDays(AnchorOf(r), r.days)))
    /\ (/\ HasStep("sra", "sra_kickoff")
        /\ OutStep("sra", "sra_kickoff").ACD = T_0106
        /\ HasStep("sra", "receive_policies_and_procedures_baa")
        /\ InputECD("sra", "receive_policies_and_procedures_baa") = << >>)
         => OutStep("sra", "receive_policies_and_procedures_baa").ECD = T_0113

\* a build in which review_policies_and_procedures_baa was set from the ACD
\* of its anchor although the anchor had an ECD too, and the result, a
\* Saturday, moved to the Monday
C7_Witness ==
  /\ dashboard.built
  /\ HasStep("sra", "review_policies_and_procedures_baa")
  /\ InputECD("sra", "review_policies_and_procedures_baa") = << >>
  /\ HasStep("sra", "receive_policies_and_procedures_baa")
  /\ OutStep("sra", "receive_policies_and_procedures_baa").ACD = T_0106
  /\ OutStep("sra", "receive_policies_and_procedures_baa").ECD = T_0214
  /\ OutStep("sra", "review_policies_and_procedures_baa").ECD =
       formatUSDate(DateOf(DaysFromCivil(2025, 1, 20)))

\* the steps whose dates the rule of a step reads
AnchorsOf(slug) ==
  CASE slug = "receive_policies_and_procedures_baa" -> {"sra_kickoff"}
    [] slug = "review_policies_and_procedures_baa" ->
         {"receive_policies_and_procedures_baa"}
    [] slug = "schedule_onsite_remote_interview" -> {"sra_kickoff"}
    [] slug = "go_onsite_have_interview" -> {"review_policies_and_procedures_baa"}
    [] slug = "recieve_requested_follow_up_documentation" -> {"go_onsite_have_interview"}
    [] slug = "schedule_final_sra_report" -> {"go_onsite_have_interview"}
    [] slug = "review_sra" -> {"present_final_sra_report", "go_onsite_have_interview"}
    [] slug = "present_final_sra_report" -> {"review_sra"}
    [] slug = "receive_credentials" -> {"nva_kickoff"}
    [] slug = "verify_access" -> {"receive_credentials"}
    [] slug = "scans_complete" -> {"receive_credentials", "verify_access", "nva_kickoff"}
    [] slug = "compile_report" -> {"present_final_nva_report", "scans_complete"}
    [] slug = "access_removed" -> {"present_final_nva_report", "scans_complete"}
    [] slug = "schedule_final_nva_report" -> {"scans_complete"}
    [] slug = "present_final_nva_report" -> {"scans_complete"}
    [] OTHER -> {}

\* the step has no ACD, had no ECD in the input, and no anchor of its rule
\* has a date
NoDateToProjectFrom(section, step) ==
  /\ step.ACD = << >>
  /\ InputECD(section, step.step_slug) = << >>
  /\ \A a \in AnchorsOf(step.step_slug) : Dateless(section, a)

\* the alignment gives Present Final NVA the ECD of Present Final SRA
Aligned(section, slug) ==
  /\ section = "nva" /\ slug = "present_final_nva_report"
  /\ HasStep("sra", "present_final_sra_report")
  /\ OutStep("sra", "present_final_sra_report").ECD # << >>

C9_CopyOnlyIfNoAcd ==
  (/\ dashboard.built
   /\ dashboard.value.show_sra /\ dashboard.value.show_nva
   /\ HasStep("sra", "sra_kickoff") /\ HasStep("nva", "nva_kickoff")
   /\ OutStep("sra", "sra_kickoff").ACD # << >>)
    => OutStep("nva", "nva_kickoff").ACD =
         IF InputACD("nva", "nva_kickoff") = << >>
         THEN OutStep("sra", "sra_kickoff").ACD
         ELSE InputACD("nva", "nva_kickoff")

\* C10: with both tracks enabled and a non-blank ECD of present_final_sra_report
\* after projection, present_final_nva_report has that ECD, and its ecd.value,
\* status and status_class are those of that ECD
C10_PresentAligned ==
  (/\ dashboard.built
   /\ dashboard.value.show_sra /\ dashboard.value.show_nva
   /\ HasStep("sra", "present_final_sra_report")
   /\ HasStep("nva", "present_final_nva_report")
   /\ OutStep("sra", "present_final_sra_report").ECD # << >>)
    => LET sraStep == OutStep("sra", "present_final_sra_report")
           nvaStep == OutStep("nva", "present_final_nva_report")
       IN  /\ nvaStep.ECD = sraStep.ECD
           /\ nvaStep.ecd.value = sraStep.ECD
           /\ nvaStep.status = computeStepStatus(nvaStep, now, zone)
           /\ nvaStep.status_class = statusClass(nvaStep.status)

\* a build with both tracks enabled in which present_final_nva_report had
\* another ECD in the input and has the ECD of present_final_sra_report
C10_Witness ==
  /\ dashboard.built
  /\ dashboard.value.show_sra /\ dashboard.value.show_nva
  /\ HasStep("sra", "present_final_sra_report")
  /\ HasStep("nva", "present_final_nva_report")
  /\ OutStep("sra", "present_final_sra_report").ECD = T_0214
  /\ InputECD("nva", "present_final_nva_report") = T_0303
  /\ OutStep("nva", "present_final_nva_report").ECD = T_0214
  /\ OutStep("nva", "present_final_nva_report").status = "On Track"

\* the location text buildDashboard reads from the row
LocationOf(r) ==
  getMetric(r.metrics, << ProjectKey("remote_onsite"), ProjectKey("location") >>)

\* the step map of a track after the bucket loop, before any cross-track step
Bucketed(r, section) ==
  BucketSteps(r.metrics, section, LocationOf(r), r.task_name, << >>)

\* the NVA track projected from its own data and rules alone
OwnNva == addEcdAcdFields(Bucketed(row, "nva"), nvaOffsets, now, zone)

\* the step of a slug in a step map
StepOfSlug(stepMap, slug) == StepOf(stepMap, findStepNameBySlug(stepMap, slug))

\* C11: with at least one track disabled, the NVA kickoff ACD and the ECD of
\* present_final_nva_report in the output are what the NVA track's own data
\* and rules give, whatever the SRA values
C11_NoCouplingUnlessBothEnabled ==
  (dashboard.built /\ ~(dashboard.value.show_sra /\ dashboard.value.show_nva))
    => /\ HasStep("nva", "nva_kickoff")
            => OutStep("nva", "nva_kickoff").ACD = InputACD("nva", "nva_kickoff")
       /\ HasStep("nva", "present_final_nva_report")
            => OutStep("nva", "present_final_nva_report").ECD =
                 StepOfSlug(OwnNva, "present_final_nva_report").ECD

\* the dashboard is the result of a call that followed another call for the
\* same row on the same day
Rebuilt == dashboard.built /\ "before" \in DOMAIN dashboard

KickoffAnchored(section) ==
  \E i \in 1..Len(StepsOf(section)) :
    /\ IncludesKickoff(StepsOf(section)[i].step_slug)
    /\ Parses(StepsOf(section)[i].ACD) \/ Parses(StepsOf(section)[i].ECD)

\* a day number falls on Monday to Friday (day 0, 01/01/1970, was a Thursday)
IsWeekday(day) == ((day + 4) % 7) \in 1..5

\* C14: a step whose slug is not covered by the explicit rules, present with
\* blank ACD and blank ECD in a track whose kickoff has an anchor date, has in
\* the output an ECD that is a date on a weekday, not before the kickoff
C14_CustomStepFallback ==
  dashboard.built =>
    \A section \in Sections : \A i \in 1..Len(StepsOf(section)) :
      ( /\ StepsOf(section)[i].step_slug \notin explicit
        /\ InputACD(section, StepsOf(section)[i].step_slug) = << >>
        /\ InputECD(section, StepsOf(section)[i].step_slug) = << >>
        /\ KickoffAnchored(section) )
        => /\ Parses(StepsOf(section)[i].ECD)
           /\ IsWeekday(parseAnyUSDate(StepsOf(section)[i].ECD).day)

\* the slugs of the two canonical track orders
CanonicalSlugs ==
  {sraOrder[i] : i \in 1..Len(sraOrder)} \cup {nvaOrder[i] : i \in 1..Len(nvaOrder)}

\* the slug and the ECD of every canonical step of a list of steps
CanonicalEcds(steps) ==
  LET IsCanonical(step) == step.step_slug \in CanonicalSlugs
      Pair(step) == << step.step_slug, step.ECD >>
      Canon == SelectSeq(steps, IsCanonical)
  IN  [i \in 1..Len(Canon) |-> Pair(Canon[i])]

\* the SRA track projected with an empty table of fallback offsets
NoFallbackSra == addEcdAcdFields(Bucketed(row, "sra"), << >>, now, zone)

\* the NVA track projected with an empty table of fallback offsets, coupled
\* and aligned as in the build
NoFallbackNva ==
  AlignPresent(NoFallbackSra,
               addEcdAcdFields(CoupleKickoff(Bucketed(row, "sra"), Bucketed(row, "nva"),
                                             dashboard.value.show_sra,
                                             dashboard.value.show_nva),
                               << >>, now, zone),
               now, zone)

\* C15: the ECD of every step with a canonical slug is, in the output, the one
\* obtained with no fallback offsets at all: the offsets passed by
\* buildDashboard determine no ECD of a canonical step
C15_ExplicitPrecedence ==
  dashboard.built =>
    /\ CanonicalEcds(dashboard.value.sra_steps) =
         CanonicalEcds(orderSteps(NoFallbackSra, sraOrder))
    /\ CanonicalEcds(dashboard.value.nva_steps) =
         CanonicalEcds(orderSteps(NoFallbackNva, nvaOrder))

\* a build in which the explicit rule of go_onsite_have_interview left the ECD
\* blank (the step it takes its date from is absent) while the kickoff has an
\* ACD, so that the fallback offset 21 had a date to start from
C15_Witness ==
  /\ dashboard.built
  /\ HasStep("sra", "sra_kickoff")
  /\ OutStep("sra", "sra_kickoff").ACD = T_0106
  /\ HasStep("sra", "go_onsite_have_interview")
  /\ ~HasStep("sra", "review_policies_and_procedures_baa")
  /\ InputECD("sra", "go_onsite_have_interview") = << >>
  /\ OutStep("sra", "go_onsite_have_interview").ECD = << >>

\* the canonical order of a track
OrderOf(section) == IF section = "sra" THEN sraOrder ELSE nvaOrder

\* the slugs of a list of steps
SlugsOf(steps) == {steps[i].step_slug : i \in 1..Len(steps)}

\* C18: in each track of the output, canonical steps are in canonical
\* sequence, every unrecognized step is after all recognized ones, unrecognized
\* steps are in alphabetical order of display name, and the steps are the
\* steps of the track before ordering, each once
C18_CanonicalOrder ==
  dashboard.built =>
    \A section \in Sections :
      /\ \A i, j \in 1..Len(StepsOf(section)) :
           i < j =>
             /\ IndexOf(OrderOf(section), StepsOf(section)[i].step_slug) = -1
                  => IndexOf(OrderOf(section), StepsOf(section)[j].step_slug) = -1
             /\ IndexOf(OrderOf(section), StepsOf(section)[j].step_slug) # -1
                  => IndexOf(OrderOf(section), StepsOf(section)[i].step_slug) <
                       IndexOf(OrderOf(section), StepsOf(section)[j].step_slug)
             /\ ~ /\ StepsOf(section)[i].name = "Custom Step"
                  /\ StepsOf(section)[j].name = "Audit Prep"
      /\ Len(StepsOf(section)) = Len(Bucketed(row, section))
      /\ SlugsOf(StepsOf(section)) = SlugsOf(Bucketed(row, section))
      /\ Cardinality(SlugsOf(StepsOf(section))) = Len(StepsOf(section))

\* a build of a row whose keys list two unrecognized steps first and the
\* canonical steps out of order
C18_Witness ==
  /\ dashboard.built
  /\ Len(dashboard.value.sra_steps) = 5
  /\ dashboard.value.sra_steps[1].step_slug = "sra_kickoff"
  /\ dashboard.value.sra_steps[2].step_slug = "receive_policies_and_procedures_baa"
  /\ dashboard.value.sra_steps[3].step_slug = "go_onsite_have_interview"
  /\ dashboard.value.sra_steps[4].step_slug = "audit_prep"
  /\ dashboard.value.sra_steps[5].step_slug = "custom_step"
  /\ Bucketed(row, "sra")[1].step_slug = "custom_step"

\* the day of the week of a day number, 0 = Sunday ... 6 = Saturday, counted
\* from Thursday 01/01/1970
WeekDayOf(day) == (day + 4) % 7

\* C16: shiftToMondayIfWeekend moves a Saturday to the Monday two days later
\* and a Sunday to the Monday one day later and leaves Monday to Friday as
\* they are; nextBusinessDay gives a weekday after the day; an ECD written by
\* a forward rule is a weekday, at most two days after anchor + days
C16_WeekendShift ==
  /\ (probe.made /\ probe.kind = "shift") =>
       /\ ~probe.monday.isNull
       /\ WeekDayOf(probe.day) = 6 => probe.monday.day = probe.day + 2
       /\ WeekDayOf(probe.day) = 0 => probe.monday.day = probe.day + 1
       /\ WeekDayOf(probe.day) \in 1..5 => probe.monday.day = probe.day
       /\ WeekDayOf(probe.monday.day) \in 1..5
       /\ WeekDayOf(probe.next.day) \in 1..5
       /\ probe.next.day > probe.day
  /\ (probe.made /\ probe.kind = "rule" /\ probe.had = << >>) =>
       /\ ~parseUSDate(probe.steps[1].ECD).isNull
       /\ WeekDayOf(parseUSDate(probe.steps[1].ECD).day) \in 1..5
       /\ parseUSDate(probe.steps[1].ECD).day - (probe.day + probe.days) \in 0..2

\* a rule whose anchor + days is Saturday 01/11/2025 and whose step gets the
\* ECD 01/13/2025
C16_Witness ==
  /\ probe.made /\ probe.kind = "rule" /\ probe.had = << >>
  /\ probe.day = DaysFromCivil(2025, 1, 4) /\ probe.days = 7
  /\ probe.steps[1].ECD = T_0113

\* C17: parseUSDate and parseAnyUSDate return null for a text that has not
\* the form of a date and for a text that names a month or a day that does
\* not exist; a result that is not null is the date written in the text
C17_ParsersRejectInvalid ==
  (probe.made /\ probe.kind = "parse") =>
    /\ ~probe.case.strict => probe.strict.isNull
    /\ ~probe.case.any => probe.lenient.isNull
    /\ ~probe.case.valid => probe.strict.isNull /\ probe.lenient.isNull
    /\ (~probe.strict.isNull /\ probe.case.valid) => probe.strict.day = probe.case.day
    /\ (~probe.lenient.isNull /\ probe.case.valid) => probe.lenient.day = probe.case.day

\* the row with other texts in its two flags
WithFlags(r, sraFlag, nvaFlag) ==
  [r EXCEPT !.metrics =
     [i \in 1..Len(r.metrics) |->
        IF r.metrics[i].key = ProjectKey("sra_enabled")
        THEN [r.metrics[i] EXCEPT !.value = sraFlag]
        ELSE IF r.metrics[i].key = ProjectKey("nva_enabled")
        THEN [r.metrics[i] EXCEPT !.value = nvaFlag]
        ELSE r.metrics[i]]]

\* the text of a flag in the row
FlagOf(name) == MetricValue(row.metrics, ProjectKey(name))

\* C19: show_sra and show_nva are the flags of the row ('true' is true,
\* 'false' is false), and the steps of a track whose flag is false are the
\* steps the build gives for the same row with the flag of that track true
\* (and, for NVA, with SRA not shown, so that NVA's own rules alone apply)
C19_HiddenTrackComputed ==
  dashboard.built =>
    /\ dashboard.value.show_sra = (FlagOf("sra_enabled") = TrueText)
    /\ dashboard.value.show_nva = (FlagOf("nva_enabled") = TrueText)
    /\ FlagOf("sra_enabled") = FalseText =>
         dashboard.value.sra_steps =
           buildDashboard(WithFlags(row, TrueText, FlagOf("nva_enabled")),
                          now, zone).sra_steps
    /\ FlagOf("nva_enabled") = FalseText =>
         dashboard.value.nva_steps =
           buildDashboard(WithFlags(row, FalseText, TrueText), now, zone).nva_steps

\* a build with SRA off in which the SRA steps are bucketed, projected and
\* classified all the same
C19_Witness ==
  /\ dashboard.built
  /\ ~dashboard.value.show_sra
  /\ dashboard.value.show_nva
  /\ Len(dashboard.value.sra_steps) = Len(sraOrder)
  /\ OutStep("sra", "sra_kickoff").ACD = T_0106
  /\ OutStep("sra", "sra_kickoff").status = "Completed"
  /\ OutStep("sra", "receive_policies_and_procedures_baa").ECD = T_0113
  /\ OutStep("sra", "receive_policies_and_procedures_baa").status = "On Track"

\* the connection string is unset or blank
StoreDisabled == store.used /\ store.conn \in {NoConn, BlankConn}

\* C20: with the connection string unset or blank, getOverrides returns null
\* and replaceOverrides returns false whatever their arguments, the module
\* holds no table client, and no storage operation has been issued
C20_StoreDisabled ==
  StoreDisabled =>
    /\ ~store.cachedClient
    /\ store.ops = {}
    /\ store.table = {}
    /\ store.called = "getOverrides" => store.result = NullResult
    /\ store.called = "replaceOverrides" => store.result = BoolResult(FALSE)

\* replaceOverrides has been called with a blank connection string
C20_Witness ==
  /\ store.used
  /\ store.conn = BlankConn
  /\ store.called = "replaceOverrides"
  /\ store.result = BoolResult(FALSE)

(***************************************************************************)
(* Properties of the single rules.  The dates of a step are read from the  *)
(* built dashboard: no rule changes a date an earlier rule wrote, so the   *)
(* dates a rule saw are the dates of the output.                           *)
(***************************************************************************)
\* the ACD of a step of the output as a date; null when the step is absent
OutAcd(section, slug) ==
  IF HasStep(section, slug) THEN parseAnyUSDate(OutStep(section, slug).ACD) ELSE Null

\* the ECD of a step of the output as a date; null when the step is absent
OutEcd(section, slug) ==
  IF HasStep(section, slug) THEN parseAnyUSDate(OutStep(section, slug).ECD) ELSE Null

\* the anchor date of a step of the output: its ACD, else its ECD
OutAnchor(section, slug) ==
  IF ~OutAcd(section, slug).isNull THEN OutAcd(section, slug) ELSE OutEcd(section, slug)

\* the day numbers of the dates of a set that are not null
DaysOf(dates) == {d.day : d \in {x \in dates : ~x.isNull}}

\* the largest number of a non-empty set
MaxOf(days) == CHOOSE m \in days : \A k \in days : k <= m

\* the candidate date, or the next business day after the latest of days when
\* the candidate is on or before it
Bumped(candidate, days) ==
  IF days # {} /\ candidate.day <= MaxOf(days)
  THEN nextBusinessDay(DateOf(MaxOf(days)))
  ELSE candidate

\* the ECDs of the two siblings of review_sra
SiblingEcds ==
  DaysOf({OutEcd("sra", "recieve_requested_follow_up_documentation"),
          OutEcd("sra", "schedule_final_sra_report")})

\* C21: review_sra, present with a blank ECD in the input, gets the weekday
\* before the ACD of present_final_sra_report if there is one; else, from the
\* anchor date G of go_onsite_have_interview, shiftToMondayIfWeekend(G + 15),
\* or the next business day after the later sibling ECD when that candidate is
\* not after it, so that the ECD is after both sibling ECDs; else it stays blank
C21_ReviewSra ==
  (dashboard.built /\ HasStep("sra", "review_sra")
     /\ InputECD("sra", "review_sra") = << >>)
    => IF ~OutAcd("sra", "present_final_sra_report").isNull
       THEN OutStep("sra", "review_sra").ECD =
              formatUSDate(shiftToFridayIfWeekend(
                DateOf(OutAcd("sra", "present_final_sra_report").day - 1)))
       ELSE IF ~OutAnchor("sra", "go_onsite_have_interview").isNull
       THEN /\ OutStep("sra", "review_sra").ECD =
                 formatUSDate(Bumped(
                   shiftToMondayIfWeekend(
                     DateOf(OutAnchor("sra", "go_onsite_have_interview").day + 15)),
                   SiblingEcds))
            /\ \A l \in SiblingEcds : OutEcd("sra", "review_sra").day > l
       ELSE OutStep("sra", "review_sra").ECD = << >>

\* a build in which the candidate 01/21/2025 of review_sra is not after the
\* ECD 02/14/2025 of schedule_final_sra_report and gives way to 02/17/2025
C21_Witness ==
  /\ dashboard.built
  /\ HasStep("sra", "review_sra")
  /\ InputECD("sra", "review_sra") = << >>
  /\ OutStep("sra", "go_onsite_have_interview").ACD = T_0106
  /\ OutStep("sra", "schedule_final_sra_report").ECD = T_0214
  /\ OutStep("sra", "review_sra").ECD = formatUSDate(DateOf(DaysFromCivil(2025, 2, 17)))

\* the later of the ECD and the ACD of review_sra; null when it has neither
ReviewDate ==
  IF DaysOf({OutEcd("sra", "review_sra"), OutAcd("sra", "review_sra")}) = {} THEN Null
  ELSE DateOf(MaxOf(DaysOf({OutEcd("sra", "review_sra"), OutAcd("sra", "review_sra")})))

\* the anchor dates of the three steps before the presentation
PrereqDays ==
  DaysOf({OutAnchor("sra", "recieve_requested_follow_up_documentation"),
          OutAnchor("sra", "schedule_final_sra_report"),
          OutAnchor("sra", "review_sra")})

\* C22: present_final_sra_report, present with a blank ECD in the input, gets
\* its ACD as ECD if it has one; else, from the later R of the ECD and the ACD
\* of review_sra, shiftToMondayIfWeekend(R + 7), or the next business day
\* after the latest anchor date of the three steps before it when that
\* candidate is not after it, so that the ECD is after each of the three
C22_PresentSra ==
  (dashboard.built /\ HasStep("sra", "present_final_sra_report")
     /\ InputECD("sra", "present_final_sra_report") = << >>)
    => IF ~OutAcd("sra", "present_final_sra_report").isNull
       THEN OutEcd("sra", "present_final_sra_report") =
              OutAcd("sra", "present_final_sra_report")
       ELSE IF ~ReviewDate.isNull
       THEN /\ OutStep("sra", "present_final_sra_report").ECD =
                 formatUSDate(Bumped(shiftToMondayIfWeekend(DateOf(ReviewDate.day + 7)),
                                     PrereqDays))
            /\ \A m \in PrereqDays : OutEcd("sra", "present_final_sra_report").day > m
       ELSE OutStep("sra", "present_final_sra_report").ECD = << >>

\* a build in which review_sra has the ACD 01/06/2025 and the later ECD
\* 02/14/2025, and the presentation gets 02/21/2025
C22_Witness ==
  /\ dashboard.built
  /\ HasStep("sra", "present_final_sra_report")
  /\ InputECD("sra", "present_final_sra_report") = << >>
  /\ OutStep("sra", "review_sra").ACD = T_0106
  /\ OutStep("sra", "review_sra").ECD = T_0214
  /\ OutStep("sra", "present_final_sra_report").ECD =
       formatUSDate(DateOf(DaysFromCivil(2025, 2, 21)))

\* C23: scans_complete, present with a blank ECD in the input, gets
\* shiftToMondayIfWeekend(later ACD + 21) when receive_credentials and
\* verify_access both have an ACD, else shiftToMondayIfWeekend(anchor + 28)
\* from the anchor date of nva_kickoff, and stays blank without that anchor
C23_ScansComplete ==
  (dashboard.built /\ HasStep("nva", "scans_complete")
     /\ InputECD("nva", "scans_complete") = << >>)
    => IF /\ ~OutAcd("nva", "receive_credentials").isNull
          /\ ~OutAcd("nva", "verify_access").isNull
       THEN OutStep("nva", "scans_complete").ECD =
              formatUSDate(shiftToMondayIfWeekend(DateOf(
                MaxOf({OutAcd("nva", "receive_credentials").day,
                       OutAcd("nva", "verify_access").day}) + 21)))
       ELSE IF ~OutAnchor("nva", "nva_kickoff").isNull
       THEN OutStep("nva", "scans_complete").ECD =
              formatUSDate(shiftToMondayIfWeekend(
                DateOf(OutAnchor("nva", "nva_kickoff").day + 28)))
       ELSE OutStep("nva", "scans_complete").ECD = << >>

\* a build in which receive_credentials has the ACD 01/06/2025 and
\* verify_access the later ACD 01/13/2025, and scans_complete gets 02/03/2025
C23_Witness ==
  /\ dashboard.built
  /\ HasStep("nva", "scans_complete")
  /\ InputECD("nva", "scans_complete") = << >>
  /\ OutStep("nva", "receive_credentials").ACD = T_0106
  /\ OutStep("nva", "verify_access").ACD = T_0113
  /\ OutStep("nva", "scans_complete").ECD =
       formatUSDate(DateOf(DaysFromCivil(2025, 2, 3)))

\* the day count of the rule of a step that follows scans_complete
DaysAfterScans(slug) == IF slug = "compile_report" THEN 7 ELSE 5

\* C24: compile_report and access_removed get, when present_final_nva_report
\* has an ACD P, the ECD shiftToFridayIfWeekend(P - 1), a weekday before P;
\* else, when their ECD is blank in the input, shiftToMondayIfWeekend(scans
\* ECD + 7) and shiftToMondayIfWeekend(scans ECD + 5), or nothing when
\* scans_complete has no ECD
C24_BeforePresentNva ==
  dashboard.built =>
    \A slug \in {"compile_report", "access_removed"} :
      HasStep("nva", slug) =>
        IF ~OutAcd("nva", "present_final_nva_report").isNull
        THEN /\ OutStep("nva", slug).ECD =
                  formatUSDate(shiftToFridayIfWeekend(
                    DateOf(OutAcd("nva", "present_final_nva_report").day - 1)))
             /\ IsWeekday(OutEcd("nva", slug).day)
             /\ OutEcd("nva", slug).day < OutAcd("nva", "present_final_nva_report").day
        ELSE InputECD("nva", slug) = << >> =>
               IF ~OutEcd("nva", "scans_complete").isNull
               THEN OutStep("nva", slug).ECD =
                      formatUSDate(shiftToMondayIfWeekend(
                        DateOf(OutEcd("nva", "scans_complete").day
                                 + DaysAfterScans(slug))))
               ELSE OutStep("nva", slug).ECD = << >>

\* a build in which present_final_nva_report has the ACD Monday 01/06/2025
\* and compile_report, with the ECD 03/03/2025 in the input, gets Friday
\* 01/03/2025
C24_Witness ==
  /\ dashboard.built
  /\ HasStep("nva", "compile_report")
  /\ InputECD("nva", "compile_report") = T_0303
  /\ OutStep("nva", "present_final_nva_report").ACD = T_0106
  /\ OutStep("nva", "compile_report").ECD =
       formatUSDate(DateOf(DaysFromCivil(2025, 1, 3)))
  /\ OutStep("nva", "access_removed").ECD = OutStep("nva", "compile_report").ECD

\* the colour of a status, as the dashboard states it
ClassOf(status) ==
  CASE status \in {"On Track", "Completed"} -> "status-pill-green"
    [] status = "Potential Roadblock" -> "status-pill-yellow"
    [] status = "Roadblock/Overage" -> "status-pill-red"
    [] status = "Not Started" -> "status-pill-neutral"

\* the text shown for a date
Shown(text) == IF text # << >> THEN text ELSE NotSetText

\* C25: every step of a built dashboard has the status computeStepStatus
\* gives for its final ACD, ECD and kickoff flag, the colour of that status,
\* and its final ECD and ACD, or 'Not set', as ecd.value and acd.value
C25_DerivedFieldsAgree ==
  dashboard.built =>
    \A section \in Sections : \A i \in 1..Len(StepsOf(section)) :
      /\ StepsOf(section)[i].isKickoff = IncludesKickoff(StepsOf(section)[i].step_slug)
      /\ StepsOf(section)[i].status =
           computeStepStatus([ACD |-> StepsOf(section)[i].ACD,
                              ECD |-> StepsOf(section)[i].ECD,
                              isKickoff |-> IncludesKickoff(StepsOf(section)[i].step_slug)],
                             now, zone)
      /\ StepsOf(section)[i].status_class = ClassOf(StepsOf(section)[i].status)
      /\ StepsOf(section)[i].ecd.value = Shown(StepsOf(section)[i].ECD)
      /\ StepsOf(section)[i].acd.value = Shown(StepsOf(section)[i].ACD)

\* a build with a step that is overdue (compile_report, due 01/03/2025 on
\* 01/08/2025) and with the NVA kickoff changed by the coupling
C25_Witness ==
  /\ dashboard.built
  /\ HasStep("nva", "compile_report")
  /\ OutStep("nva", "compile_report").status = "Roadblock/Overage"
  /\ OutStep("nva", "compile_report").status_class = "status-pill-red"
  /\ InputACD("nva", "nva_kickoff") = << >>
  /\ OutStep("nva", "nva_kickoff").acd.value = T_0106
  /\ OutStep("nva", "nva_kickoff").status = "Completed"

\* the step map of a track as buildDashboard gives it to addEcdAcdFields
GivenSteps(section) ==
  IF section = "sra" THEN Bucketed(row, "sra")
  ELSE CoupleKickoff(Bucketed(row, "sra"), Bucketed(row, "nva"),
                     parseBool(FlagOf("sra_enabled")), parseBool(FlagOf("nva_enabled")))

\* the step map of a track as addEcdAcdFields returns it
Projected(section) ==
  addEcdAcdFields(GivenSteps(section), IF section = "sra" THEN sraOffsets ELSE nvaOffsets,
                  now, zone)

\* all canonical steps of the track are given, and the only date among them
\* is the ACD of the kickoff
KickoffOnly(section) ==
  /\ \A k \in 1..Len(OrderOf(section)) :
       findStepNameBySlug(GivenSteps(section), OrderOf(section)[k]) # NoName
  /\ \A i \in 1..Len(GivenSteps(section)) :
       /\ GivenSteps(section)[i].ECD = << >>
       /\ IF IncludesKickoff(GivenSteps(section)[i].step_slug)
          THEN Parses(GivenSteps(section)[i].ACD)
          ELSE GivenSteps(section)[i].ACD = << >>

\* the projected ECDs of the canonical steps named in order, as day numbers
EcdDays(steps, order) ==
  [k \in 1..Len(order) |-> parseAnyUSDate(StepOfSlug(steps, order[k]).ECD).day]

\* every canonical step named in order has a projected ECD
AllProjected(steps, order) ==
  \A k \in 1..Len(order) : Parses(StepOfSlug(steps, order[k]).ECD)

NonDecreasing(days) == \A i, j \in 1..Len(days) : i < j => days[i] <= days[j]

\* the steps of the SRA order without the two scheduling steps
sraOrderUnscheduled ==
  SelectSeq(sraOrder, LAMBDA slug : slug \notin {"schedule_onsite_remote_interview",
                                                 "schedule_final_sra_report"})

\* C26 (as stated): in a track with all canonical steps and the kickoff ACD as
\* its only date, the ECDs addEcdAcdFields projects are non-decreasing along
\* the canonical order of the track, and the presentation has the latest
C26_MonotoneEcds ==
  dashboard.built =>
    \A section \in Sections :
      KickoffOnly(section) =>
        /\ AllProjected(Projected(section), OrderOf(section))
        /\ NonDecreasing(EcdDays(Projected(section), OrderOf(section)))

\* C26 (as amended): in such a track every canonical step gets an ECD, none
\* before the kickoff ACD and none after the ECD of the presentation; the NVA
\* ECDs are non-decreasing along nvaOrder, and the SRA ECDs are non-decreasing
\* along sraOrder once schedule_onsite_remote_interview and
\* schedule_final_sra_report are left out
C26_MonotoneButScheduling ==
  dashboard.built =>
    \A section \in Sections :
      KickoffOnly(section) =>
        /\ AllProjected(Projected(section), OrderOf(section))
        /\ \A k \in 1..Len(OrderOf(section)) :
             /\ EcdDays(Projected(section), OrderOf(section))[1]
                  <= EcdDays(Projected(section), OrderOf(section))[k]
             /\ EcdDays(Projected(section), OrderOf(section))[k]
                  <= EcdDays(Projected(section), OrderOf(section))[Len(OrderOf(section))]
        /\ NonDecreasing(EcdDays(Projected(section),
                                 IF section = "sra" THEN sraOrderUnscheduled
                                                    ELSE nvaOrder))

\* a build of a row whose SRA track has all its steps and the kickoff ACD
\* 01/06/2025 alone: review_policies is due 01/27/2025, schedule_onsite
\* 01/20/2025, the presentation 02/25/2025
C26_Witness ==
  /\ dashboard.built
  /\ KickoffOnly("sra")
  /\ OutStep("sra", "sra_kickoff").ACD = T_0106
  /\ OutStep("sra", "review_policies_and_procedures_baa").ECD =
       formatUSDate(DateOf(DaysFromCivil(2025, 1, 27)))
  /\ OutStep("sra", "schedule_onsite_remote_interview").ECD =
       formatUSDate(DateOf(DaysFromCivil(2025, 1, 20)))
  /\ OutStep("sra", "present_final_sra_report").ECD =
       formatUSDate(DateOf(DaysFromCivil(2025, 2, 25)))

\* C27: pickBestBySf returns one row for every sf_id of its input and no
\* other, each a row of the input, and the row of an sf_id that has a task
\* whose status type is not 'closed' is such a task
C27_PrefersOpenTask ==
  (probe.made /\ probe.kind = "pick") =>
    /\ {probe.best[i].sf_id : i \in 1..Len(probe.best)} =
         {probe.rows[i].sf_id : i \in 1..Len(probe.rows)}
    /\ \A i, j \in 1..Len(probe.best) :
         probe.best[i].sf_id = probe.best[j].sf_id => i = j
    /\ \A i \in 1..Len(probe.best) : \E j \in 1..Len(probe.rows) :
         probe.best[i] = probe.rows[j]
    /\ \A j \in 1..Len(probe.rows) :
         probe.rows[j].task_status_type # "closed" =>
           \A i \in 1..Len(probe.best) :
             probe.best[i].sf_id = probe.rows[j].sf_id =>
               probe.best[i].task_status_type # "closed"

\* the entries of a map whose trimmed key and trimmed value are not empty
Kept(map) ==
  {[key |-> Trim(map[i].key), value |-> Trim(map[i].value.text)] :
     i \in {j \in 1..Len(map) : /\ Trim(map[j].key) # << >>
                                /\ ~map[j].value.isNull
                                /\ Trim(map[j].value.text) # << >>}}

\* the entries a partition of the table holds
Held(table, pk) ==
  {[key |-> e.metricKey, value |-> e.value] : e \in {x \in table : x.partitionKey = pk}}

\* call c has returned true, it ran while the other call was not running,
\* and no call has run since
Settled(st, c) ==
  /\ st.calls[c].pc = "done"
  /\ st.calls[c].result = [kind |-> "true"]
  /\ st.calls[c].alone
  /\ st.last = c
  /\ st.calls[3 - c].pc \in {"idle", "done"}

\* after a call that has settled its partition holds the kept entries of its
\* map and nothing else, and getOverrides of its sfId returns that map
SettledState(st) ==
  \A c \in 1..2 :
    Settled(st, c) =>
      /\ Held(st.table, Trim(st.calls[c].sfId)) = Kept(st.calls[c].map)
      /\ (st.got.made /\ st.got.sfId = st.calls[c].sfId) =>
           st.result = [kind |-> "map", entries |-> Kept(st.calls[c].map)]

\* a step taken while call c runs and the other call does not leaves the
\* partitions other than that of c as they are
OwnPartitionOnly ==
  \A c \in 1..2 :
    (store.calls[c].pc \in {"list", "delete", "create"}
       /\ store.calls[3 - c].pc \in {"idle", "done"}) =>
      \A pk \in {<< "a" >>, << "b" >>} \ {Trim(store.calls[c].sfId)} :
        Held(store'.table, pk) = Held(store.table, pk)

Creatable(map) ==
  \A i, j \in 1..Len(map) :
    (/\ i # j
     /\ Trim(map[i].key) = Trim(map[j].key)
     /\ ~map[i].value.isNull /\ ~map[j].value.isNull) =>
      (Trim(map[i].value.text) = << >> \/ Trim(map[j].value.text) = << >>)

\* C29: two replaceOverrides calls for the same sfId that overlap, each with
\* a map that a call running alone stores without error, both return true,
\* and when both have returned the partition holds the kept entries of the
\* map of one of them
C29_InterleavedCallsAgree ==
  (/\ store.calls[1].pc = "done" /\ store.calls[2].pc = "done"
   /\ ~store.calls[1].alone /\ ~store.calls[2].alone
   /\ Creatable(store.calls[1].map) /\ Creatable(store.calls[2].map)
   /\ Trim(store.calls[1].sfId) = Trim(store.calls[2].sfId)) =>
    /\ store.calls[1].result = [kind |-> "true"]
    /\ store.calls[2].result = [kind |-> "true"]
    /\ Held(store.table, Trim(store.calls[1].sfId)) \in
         {Kept(store.calls[1].map), Kept(store.calls[2].map)}

\* the admin check of a call passes: the host is allowed and the key is the
\* configured one, when hosts and a key are configured
AdminOk(u) ==
  /\ \/ u.env.allowedHosts = {}
     \/ /\ Trim(u.req.host) # << >>
        /\ \E h \in u.env.allowedHosts :
             \/ Trim(u.req.host) = h
             \/ \E n \in 1..Len(Trim(u.req.host)) :
                  SubSeq(Trim(u.req.host), 1, n) = h \o << ":" >>
  /\ \/ u.env.adminKey = << >>
     \/ (IF u.req.queryKey # << >> THEN u.req.queryKey ELSE u.req.headerKey)
          = u.env.adminKey

\* sf_id, metric_key and sig are present and sig is the signature of sf_id
PayloadOk(u) ==
  /\ Trim(u.req.sf_id) # << >>
  /\ Trim(u.req.metric_key) # << >>
  /\ Trim(u.req.sig) = << "#" >> \o Trim(u.req.sf_id)

\* the fetched rows hold a row of the sf_id
RowExists(u) == \E i \in 1..Len(u.rows) : u.rows[i].sf_id = Trim(u.req.sf_id)

\* CLICKUP_FIELD_MAP_JSON maps the metric_key to a field id
Mapped(u) ==
  /\ u.env.fieldMapJson = "{\"k\":\"f1\"}"
  /\ Trim(u.req.metric_key) = << "k" >>

\* the response the checks of a call prescribe
Prescribed(u) ==
  IF ~AdminOk(u) THEN [made |-> TRUE, status |-> 401, error |-> "unauthorized"]
  ELSE IF ~PayloadOk(u) THEN [made |-> TRUE, status |-> 400, error |-> "invalid_payload"]
  ELSE IF ~RowExists(u) THEN [made |-> TRUE, status |-> 404, error |-> "status_not_found"]
  ELSE IF ~Mapped(u) THEN [made |-> TRUE, status |-> 400, error |-> "field_not_mapped"]
  ELSE [made |-> TRUE, status |-> 200, error |-> ""]

\* C30: the update handler issues updateCustomField only after fetchListRows
\* and only when the admin check, the payload check, the row check and the
\* field check have passed; it fetches the task list only when the admin and
\* the payload check have passed; and when no call throws it answers with
\* the response of the first check that fails, having issued no write
C30_WriteAfterChecks ==
  probe.made =>
    /\ (\E i \in 1..Len(probe.log) : probe.log[i].call = "updateCustomField") =>
         /\ AdminOk(probe) /\ PayloadOk(probe) /\ RowExists(probe) /\ Mapped(probe)
         /\ Len(probe.log) = 2
         /\ probe.log[1].call = "fetchListRows"
    /\ probe.log # << >> => (AdminOk(probe) /\ PayloadOk(probe))
    /\ (probe.pc = "done" /\ probe.res.status # 500) => probe.res = Prescribed(probe)
====
